---- MODULE Spec2Model ----
(***************************************************************************)
(* The API consumption core of encrypt-rewind: the request scheduler of    *)
(* RiotAPIService (makeRequest / processQueue / throttleRequest), the      *)
(* credential rotator APIKeyManager and the admission check of APIMonitor. *)
(*                                                                         *)
(* Time is the integer `now` in milliseconds.  JavaScript runs one handler *)
(* at a time, so every action below is one run-to-completion segment of    *)
(* the code between two awaits; timers and upstream replies fire at their  *)
(* due time, and Tick moves the clock to the next due time.                *)
(***************************************************************************)
EXTENDS Integers, Sequences, FiniteSets, TLC

\* ---------------------------------------------------------------- bounds
\* number of makeRequest calls explored
MaxRequests == 2
\* number of makeRequest calls explored under the burst specification
BurstRequests == 34
\* largest number of configured credentials
MaxKeys == 4
\* number of direct getNextAPIKey calls explored
MaxPicks == 4
\* largest errorCount explored by direct recordError calls
MaxErrorCount == 3
\* hours of cache life explored
MaxHours == 3

\* ----------------------------------------------------- program constants
minRequestInterval == 50
maxRequestsPerWindow == 20
rateLimitWindow == 1000
throttleBuffer == 10
requestsPerMinute == 100
maxKeyTries == 3
successDelay == 10
requestTimeout == 30000
errorThreshold == 3
cooldownMs == 300000
cleanupInterval == 60000
minuteMs == 60000
hourMs == 3600000
memoryCacheMaxSize == 1000
\* number of direct recordRequest calls explored
MaxRecords == 3
\* number of different keys stored in the memory tier
MaxCacheKeys == 1001

\* ------------------------------------------------------------ input sets
\* the secrets of the configured credentials after cleanAPIKey: n usable
\* tokens, or n - 1 usable tokens and a last secret that is empty
KeyConfigs ==
    UNION { { [i \in 1..n |-> "k"],
              [i \in 1..n |-> IF i = n THEN "" ELSE "k"] } : n \in 1..MaxKeys }
\* wall-clock time at construction: a minute boundary, and 59 s into a minute
StartTimes == {60000, 119000}
\* requests already counted in the current minute bucket of data/api_stats.json
InitMinuteRequests == {0, 99, 100}
\* latency of an upstream call that answers before the timeout
Latencies == {0}
\* an upstream reply: the HTTP status (0: no response, the call timed out)
\* and the status_code of a status object in the body (0: no such object)
Replies ==
    { [http |-> 200, code |-> 0],
      [http |-> 401, code |-> 0],
      [http |-> 401, code |-> 401],
      [http |-> 404, code |-> 0],
      [http |-> 404, code |-> 404],
      [http |-> 403, code |-> 0],
      [http |-> 429, code |-> 0],
      [http |-> 500, code |-> 0],
      [http |-> 0,   code |-> 0] }
\* the status codes passed to recordError directly
ErrorCodes == {401, 403, 404, 429}
\* the replies of an upstream that rejects every credential at once
BurstReplies == { [http |-> 401, code |-> 0] }

VARIABLES
    now,                \* Date.now()
    nextCleanup,        \* due time of the constructor's setInterval
    requestQueue,       \* this.requestQueue: request ids, head first
    isProcessing,       \* this.isProcessing
    requestTimestamps,  \* this.requestTimestamps
    lastRequestTime,    \* this.lastRequestTime
    apiKeys,            \* APIKeyManager.apiKeys
    currentKeyIndex,    \* APIKeyManager.currentKeyIndex
    minuteStats,        \* APIMonitor.stats.minuteStats, by minute bucket
    timers,             \* pending cooldown timers of recordError
    loops,              \* the locals of each processQueue activation
    nextId,             \* number of makeRequest calls so far, plus one
    promises,           \* state of the promise makeRequest returned
    hist,               \* history: the request shifted last and its calls
    dispatched,         \* history: times of the upstream calls of the last second
    order,              \* history: request ids in order of their first upstream call
    minuteCalls,        \* history: upstream calls dispatched in one minute bucket
    memoryCache,        \* CacheService.memoryCache: key -> entry
    diskCache,          \* the files of data/cache: key -> file content
    call,               \* history: the last call of a public method and its result
    picks,              \* history: credentials getNextAPIKey returned, in order
    stored,             \* history: key -> payload of the last successful set, until deleted
    keyLog,             \* history: per credential, the authentication and rate-limit
                        \* errors recorded in a row, up to the threshold
    region,             \* this.region: the regional routing value of the process
    platform,           \* this.platform: the platform routing value of the process
    run                 \* the locals of the running accessor or season aggregation

vars == << now, nextCleanup, requestQueue, isProcessing, requestTimestamps,
           lastRequestTime, apiKeys, currentKeyIndex, minuteStats, timers,
           loops, nextId, promises, hist, dispatched, order, minuteCalls,
           memoryCache, diskCache, call, picks, stored, keyLog,
           region, platform, run >>

\* the routing values of RiotAPIService and the locals of its accessors
svc == << region, platform, run >>

\* the state of CacheService, and the record of direct calls of the public
\* methods of APIKeyManager and CacheService
direct == << memoryCache, diskCache, call, picks, stored, keyLog >>

\* ---------------------------------------------------------------- helpers
Min2(a, b) == IF a < b THEN a ELSE b

SetMin(S) == CHOOSE x \in S : \A y \in S : x <= y

SeqMin(s) == SetMin({ s[i] : i \in 1..Len(s) })

Usable(k) == k.enabled /\ k.key # ""

\* indexes of the credentials the filter of getNextAPIKey keeps, in array order
UsableIdx(keys) ==
    SelectSeq([i \in 1..Len(keys) |-> i], LAMBDA i : Usable(keys[i]))

NoReply == [http |-> -1, code |-> -1]

\* an Error object: error.response.status and error.response.data
Err(status, data) == [status |-> status, data |-> data]
NoError == Err(-1, NoReply)

\* the JavaScript values undefined and null
Undefined == "undefined"
Null == "null"

\* no public method has been called directly
NoCall == [op |-> "none"]

\* ------------------------------------------------------------ APIMonitor
MinuteBucket(t) == t \div minuteMs

MinuteRequests(stats, t) ==
    IF MinuteBucket(t) \in DOMAIN stats THEN stats[MinuteBucket(t)].requests ELSE 0

\* an admission check that lets the request at the ceiling through
canMakeRequestAbove(stats, t) ==
    IF MinuteRequests(stats, t) > requestsPerMinute
    THEN [allowed |-> FALSE, retryAfter |-> 60 - ((t \div 1000) % 60)]
    ELSE [allowed |-> TRUE, retryAfter |-> 0]

\* lines 239-254
canMakeRequest(stats, t) ==
    IF MinuteRequests(stats, t) >= requestsPerMinute
    THEN [allowed |-> FALSE, retryAfter |-> 60 - ((t \div 1000) % 60)]
    ELSE [allowed |-> TRUE, retryAfter |-> 0]

recordRequest(stats, t, statusCode, fromCache) ==
    LET b == MinuteBucket(t)
        old == IF b \in DOMAIN stats THEN stats[b]
               ELSE [requests |-> 0, errors |-> 0, cacheHits |-> 0]
        new == [requests |-> old.requests + 1,
                errors |-> old.errors + (IF statusCode >= 400 THEN 1 ELSE 0),
                cacheHits |-> old.cacheHits + (IF fromCache THEN 1 ELSE 0)]
    IN  [x \in DOMAIN stats \cup {b} |-> IF x = b THEN new ELSE stats[x]]

\* --------------------------------------------------------- APIKeyManager
loadAPIKeys(secrets) ==
    [i \in 1..Len(secrets) |->
        [id |-> i, key |-> secrets[i], enabled |-> TRUE, lastUsed |-> 0,
         errorCount |-> 0, requestCount |-> 0]]

\* a selection that always takes the first credential of the filtered list
TakeKeyFirst(keys, idx, list, t) ==
    [ok |-> TRUE, k |-> list[1], idx |-> idx + 1,
     keys |-> [keys EXCEPT ![list[1]].lastUsed = t,
                           ![list[1]].requestCount = @ + 1]]

\* the credential at position currentKeyIndex % length of the filtered list,
\* marked used
TakeKey(keys, idx, list, t) ==
    LET k == list[(idx % Len(list)) + 1]
    IN  [ok |-> TRUE, k |-> k, idx |-> idx + 1,
         keys |-> [keys EXCEPT ![k].lastUsed = t,
                               ![k].requestCount = @ + 1]]

\* a selection that gives up when no credential is enabled
getNextAPIKeyNoReset(keys, idx, t) ==
    IF Len(UsableIdx(keys)) = 0
    THEN [ok |-> FALSE, k |-> 0, idx |-> idx, keys |-> keys]
    ELSE TakeKey(keys, idx, UsableIdx(keys), t)

\* getNextAPIKey: ok = FALSE when it throws.  The validation of lines
\* 100-117 cannot fail, because the filter of line 71 already requires a
\* non-empty secret.
getNextAPIKey(keys, idx, t) ==
    LET enabledKeys == UsableIdx(keys)
        reset == [i \in 1..Len(keys) |->
                    IF keys[i].key # ""
                    THEN [keys[i] EXCEPT !.enabled = TRUE, !.errorCount = 0]
                    ELSE keys[i]]
        reEnabledKeys == UsableIdx(reset)
    IN  IF Len(keys) = 0 THEN [ok |-> FALSE, k |-> 0, idx |-> idx, keys |-> keys]
        ELSE IF Len(enabledKeys) = 0
        THEN IF Len(reEnabledKeys) = 0
             THEN [ok |-> FALSE, k |-> 0, idx |-> idx, keys |-> reset]
             ELSE TakeKey(reset, idx, reEnabledKeys, t)
        ELSE TakeKey(keys, idx, enabledKeys, t)

\* recordError: the credentials and the cooldown timers after it
recordError(keys, tms, k, errorCode, t) ==
    LET n == keys[k].errorCount + 1
        disable == errorCode \in {429, 403} /\ n >= errorThreshold
    IN  [keys |-> [keys EXCEPT ![k].errorCount = n,
                               ![k].enabled = IF disable THEN FALSE ELSE @],
         timers |-> IF disable THEN tms \cup {[k |-> k, at |-> t + cooldownMs]}
                    ELSE tms]

\* a success that also puts the credential back into rotation
recordSuccessReenable(keys, k) ==
    [keys EXCEPT ![k].errorCount = IF @ > 0 THEN @ - 1 ELSE @,
                 ![k].enabled = TRUE]

\* lines 149-158
recordSuccess(keys, k) ==
    [keys EXCEPT ![k].errorCount = IF @ > 0 THEN @ - 1 ELSE @]

\* ------------------------------------------------- RiotAPIService: state
\* the locals of one processQueue activation, and where it is suspended:
\*   none           not running (returned, or never started)
\*   admitSleep     line 263, after canMakeRequest denied
\*   throttleWait1  line 215, the minimum-interval wait of throttleRequest
\*   throttleWait2  line 231, the per-second wait of throttleRequest
\*   throttled      line 268, throttleRequest has returned
\*   inflight       line 359, axios.get is awaited
\*   successDelay   line 474, the delay after a resolve
IdleLoop ==
    [pc |-> "none", rateLimitCheck |-> [allowed |-> TRUE, retryAfter |-> 0],
     now0 |-> 0, wakeAt |-> 0, req |-> 0, maxKeyRetries |-> 0, keyAttempt |-> 0,
     keysTried |-> << >>, apiKeyId |-> 0, lastError |-> NoError,
     requestSucceeded |-> FALSE, reply |-> NoReply]

NoHist ==
    [req |-> 0, resps |-> << >>, calls |-> 0, outcome |-> "pending",
     error |-> NoError, value |-> NoReply, settleCalls |-> 0]

\* the mutable state the handlers work on, as one record
St ==
    [q |-> requestQueue, ip |-> isProcessing, ts |-> requestTimestamps,
     lrt |-> lastRequestTime, keys |-> apiKeys, idx |-> currentKeyIndex,
     stats |-> minuteStats, timers |-> timers, loops |-> loops,
     promises |-> promises, hist |-> hist, dispatched |-> dispatched,
     order |-> order, minuteCalls |-> minuteCalls]

Commit(S) ==
    /\ requestQueue' = S.q
    /\ isProcessing' = S.ip
    /\ requestTimestamps' = S.ts
    /\ lastRequestTime' = S.lrt
    /\ apiKeys' = S.keys
    /\ currentKeyIndex' = S.idx
    /\ minuteStats' = S.stats
    /\ timers' = S.timers
    /\ loops' = S.loops
    /\ promises' = S.promises
    /\ hist' = S.hist
    /\ dispatched' = S.dispatched
    /\ order' = S.order
    /\ minuteCalls' = S.minuteCalls
    /\ UNCHANGED << direct, svc >>

\* --------------------------------------------- throttleRequest (207-233)
\* lines 218-232: track the request, then wait if the last second is full
ThrottleTrack(S, a) ==
    LET ts2 == Append(S.ts, now)
        oneSecondAgo == S.loops[a].now0 - rateLimitWindow
        recentRequests == SelectSeq(ts2, LAMBDA x : x > oneSecondAgo)
        waitTime == rateLimitWindow - (S.loops[a].now0 - SeqMin(recentRequests))
                        + throttleBuffer
        S1 == [S EXCEPT !.ts = ts2, !.lrt = now]
    IN  IF Len(recentRequests) >= maxRequestsPerWindow
        THEN [S1 EXCEPT !.loops[a].pc = "throttleWait2",
                        !.loops[a].wakeAt = now + waitTime]
        ELSE [S1 EXCEPT !.loops[a].pc = "throttled"]

\* lines 208-216: the minimum interval since the last request
ThrottleRequest(S, a) ==
    LET timeSinceLastRequest == now - S.lrt
        S1 == [S EXCEPT !.loops[a].now0 = now]
    IN  IF timeSinceLastRequest < minRequestInterval
        THEN [S1 EXCEPT !.loops[a].pc = "throttleWait1",
                        !.loops[a].wakeAt =
                            now + (minRequestInterval - timeSinceLastRequest)]
        ELSE ThrottleTrack(S1, a)

\* ------------------------------------------------ processQueue (252-527)
\* the denial ignored
AdmittedAlways(chk) == TRUE

\* line 261: whether the admission check lets the loop go on
Admitted(chk) == chk.allowed

\* lines 258-268 and 524-526: the head of the while loop, up to its first await
LoopHead(S, a) ==
    IF Len(S.q) = 0
    THEN [S EXCEPT !.loops[a] = IdleLoop, !.ip = FALSE]
    ELSE LET chk == canMakeRequest(S.stats, now)
             S1 == [S EXCEPT !.loops[a] = [IdleLoop EXCEPT !.rateLimitCheck = chk]]
         IN  IF ~Admitted(chk)
             THEN [S1 EXCEPT !.loops[a].pc = "admitSleep",
                             !.loops[a].wakeAt = now + chk.retryAfter * 1000]
             ELSE ThrottleRequest(S1, a)

\* resolve(value) or reject(error) of request r: a promise settles once, a
\* second call changes nothing
Settle(S, r, kind, error, value) ==
    LET first == S.promises[r] = "pending"
    IN  [S EXCEPT !.promises[r] = "settled",
                  !.hist = IF S.hist.req = r
                           THEN [@ EXCEPT !.settleCalls = @ + 1,
                                          !.outcome = IF first THEN kind ELSE @,
                                          !.error = IF first THEN error ELSE @,
                                          !.value = IF first THEN value ELSE @]
                           ELSE @]

Reject(S, r, error) == Settle(S, r, "rejected", error, NoReply)

Resolve(S, r, value) == Settle(S, r, "resolved", NoError, value)

\* a scheduler that drops a failed request without telling its caller
AfterKeyLoopNoReject(S, a) == LoopHead(S, a)

\* lines 494-510: after the key loop; then the while loop goes on
AfterKeyLoop(S, a) ==
    LET l == S.loops[a]
    IN  IF ~l.requestSucceeded
        THEN LoopHead(Reject(S, l.req, IF l.lastError # NoError THEN l.lastError
                                      ELSE Err(401, NoReply)), a)
        ELSE LoopHead(S, a)

\* line 359: the upstream call leaves
Dispatch(S, a, k) ==
    [S EXCEPT !.loops[a].pc = "inflight",
              !.loops[a].apiKeyId = k,
              !.loops[a].reply = NoReply,
              !.hist.calls = @ + 1,
              !.dispatched = Append(@, now),
              !.minuteCalls = IF @.bucket = MinuteBucket(now)
                              THEN [@ EXCEPT !.calls = @ + 1]
                              ELSE [bucket |-> MinuteBucket(now), calls |-> 1],
              !.order = IF \E i \in 1..Len(@) : @[i] = S.loops[a].req
                        THEN @ ELSE Append(@, S.loops[a].req)]

\* one attempt per configured credential, without the cap
MaxKeyRetriesUncapped(n) == n

\* line 275
MaxKeyRetries(n) == Min2(n, maxKeyTries)

\* lines 278-359: the key loop from its current keyAttempt, up to the await
\* of the upstream call or to the end of the loop
RECURSIVE KeyLoop(_, _)
KeyLoop(S, a) ==
    LET l == S.loops[a]
        g == getNextAPIKey(S.keys, S.idx, now)
        S1 == [S EXCEPT !.keys = g.keys, !.idx = g.idx]
        S2 == [S1 EXCEPT !.loops[a].keysTried = Append(@, g.k)]
        e == recordError(S2.keys, S2.timers, g.k, 401, now)
    IN  IF ~(l.keyAttempt < l.maxKeyRetries /\ ~l.requestSucceeded)
        THEN AfterKeyLoop(S, a)
        ELSE IF ~g.ok
        THEN AfterKeyLoop(IF l.keyAttempt = 0
                          THEN Reject(S1, l.req, Err(500, NoReply)) ELSE S1, a)
        ELSE IF S2.keys[g.k].key = ""
        THEN KeyLoop([S2 EXCEPT !.keys = e.keys, !.timers = e.timers,
                                !.loops[a].keyAttempt = @ + 1], a)
        ELSE Dispatch(S2, a, g.k)

\* lines 270-276: take the head of the queue and start the key loop
Shift(S, a) ==
    LET r == Head(S.q)
    IN  KeyLoop([S EXCEPT !.q = Tail(@),
                          !.loops[a].req = r,
                          !.loops[a].maxKeyRetries = MaxKeyRetries(Len(S.keys)),
                          !.hist = [NoHist EXCEPT !.req = r]], a)

\* a 404 taken for a credential failure as well
IsKeyRetryStatusWide(statusCode) == statusCode \in {401, 404}

\* lines 378 and 422: a 401 is answered by trying the next credential
IsKeyRetryStatus(statusCode) == statusCode = 401

\* lines 372-417 (status object in the body) and 419-461 (HTTP status)
OnErrorStatus(S, a, statusCode, reply) ==
    LET l == S.loops[a]
        e == recordError(S.keys, S.timers, l.apiKeyId, statusCode, now)
        S1 == [S EXCEPT !.stats = recordRequest(@, now, statusCode, FALSE),
                        !.keys = e.keys, !.timers = e.timers]
    IN  IF IsKeyRetryStatus(statusCode) /\ l.keyAttempt < l.maxKeyRetries - 1
        THEN KeyLoop([S1 EXCEPT !.loops[a].lastError = Err(statusCode, reply),
                                !.loops[a].keyAttempt = @ + 1], a)
        ELSE AfterKeyLoop([Reject(S1, l.req, Err(statusCode, reply))
                              EXCEPT !.loops[a].requestSucceeded = TRUE], a)

\* lines 463-474: success; the loop sleeps 10 ms before it goes on
OnSuccess(S, a, reply) ==
    LET l == S.loops[a]
        S1 == [S EXCEPT !.stats = recordRequest(@, now, reply.http, FALSE),
                        !.keys = recordSuccess(@, l.apiKeyId)]
    IN  [Resolve(S1, l.req, reply)
            EXCEPT !.loops[a].requestSucceeded = TRUE,
                   !.loops[a].pc = "successDelay",
                   !.loops[a].wakeAt = now + successDelay]

\* lines 476-491: axios threw (a status of 500 or more, a timeout, no network)
OnThrown(S, a, reply) ==
    LET l == S.loops[a]
        e == recordError(S.keys, S.timers, l.apiKeyId, 401, now)
    IN  IF reply.http = 401 /\ l.keyAttempt < l.maxKeyRetries - 1
        THEN KeyLoop([S EXCEPT !.stats = recordRequest(@, now, 401, FALSE),
                               !.keys = e.keys, !.timers = e.timers,
                               !.loops[a].lastError = Err(reply.http, reply),
                               !.loops[a].keyAttempt = @ + 1], a)
        ELSE AfterKeyLoop([S EXCEPT !.loops[a].lastError = Err(reply.http, reply)], a)

\* lines 365-367: validateStatus makes axios throw for 500 and above; a call
\* without a response (http = 0) throws as well
Throws(reply) == reply.http = 0 \/ reply.http >= 500

\* lines 359-491: the continuation of the awaited upstream call
HandleReply(S, a) ==
    LET reply == S.loops[a].reply
        S1 == [S EXCEPT !.hist.resps = Append(@, reply)]
    IN  IF Throws(reply) THEN OnThrown(S1, a, reply)
        ELSE IF reply.code # 0 THEN OnErrorStatus(S1, a, reply.code, reply)
        ELSE IF reply.http >= 400 THEN OnErrorStatus(S1, a, reply.http, reply)
        ELSE OnSuccess(S1, a, reply)

\* the early return without the isProcessing flag
ProcessQueueReturnsNoFlag(ip, q) == Len(q) = 0

\* line 253: the early return of processQueue
ProcessQueueReturns(ip, q) == ip \/ Len(q) = 0

\* lines 252-256
processQueue(S, a) ==
    IF ProcessQueueReturns(S.ip, S.q) THEN S
    ELSE LoopHead([S EXCEPT !.ip = TRUE], a)

\* the request put at the front instead
EnqueueFront(q, r) == << r >> \o q

\* line 247: the request joins the queue
Enqueue(q, r) == Append(q, r)

\* lines 246-249: the promise executor of makeRequest
makeRequest(S, r) ==
    processQueue([S EXCEPT !.q = Enqueue(@, r),
                           !.promises = Append(@, "pending"),
                           !.loops = Append(@, IdleLoop)], r)

\* ------------------------------------------------------------ the system
\* the state after the modules are loaded and RiotAPIService is constructed;
\* the constructor (line 14) takes one credential from the rotator
\* ------------------------------------------------------- routing values
\* lines 45-46 and 148-149
validPlatforms ==
    {"br1", "eun1", "euw1", "jp1", "kr", "la1", "la2", "na1", "oc1", "tr1",
     "ru", "sg2", "tw2", "vn2"}
validRegions == {"americas", "europe", "asia", "sea"}

\* lines 49-54 and 151-156
regionalToDefaultPlatform ==
    [r \in validRegions |->
        CASE r = "americas" -> "na1"
          [] r = "europe" -> "euw1"
          [] r = "asia" -> "kr"
          [] r = "sea" -> "sg2"]

\* lines 57-77 and 158-178
platformToRegional ==
    [p \in validPlatforms |->
        IF p \in {"na1", "br1", "la1", "la2"} THEN "americas"
        ELSE IF p \in {"euw1", "eun1", "ru", "tr1"} THEN "europe"
        ELSE IF p \in {"kr", "jp1"} THEN "asia"
        ELSE "sea"]

\* routing values as a user or the environment may write them:
\* RIOT_API_REGION and the region option of a command
RoutingInputs ==
    validPlatforms \cup validRegions \cup {"EUW1", "SEA", "xx", "", Null}

\* String.prototype.toLowerCase on the strings of RoutingInputs and on the
\* names the accessors are called with
ToLowerCase(str) ==
    CASE str = "EUW1" -> "euw1"
      [] str = "SEA" -> "sea"
      [] str = "Ann" -> "ann"
      [] str = "EUW" -> "euw"
      [] OTHER -> str

\* JavaScript truthiness of a string or null
Falsy(v) == v \in {"", Null, Undefined}

\* a || b
Or(a, b) == IF Falsy(a) THEN b ELSE a

\* lines 41 and 79-99: the routing values the constructor derives from
\* RIOT_API_REGION
Constructor(env) ==
    LET userInput == ToLowerCase(Or(env, "sea"))
    IN  IF userInput \in validRegions
        THEN [region |-> userInput,
              platform |-> regionalToDefaultPlatform[userInput]]
        ELSE IF userInput \in validPlatforms
        THEN [platform |-> userInput,
              region |-> Or(platformToRegional[userInput], "sea")]
        ELSE [platform |-> "sg2", region |-> "sea"]

\* a resolution that keeps sea for the account family
resolveRegionAndPlatformKeepSea(reg, plat, userRegion, forAccountAPI, forMatchAPI) ==
    LET userInput == ToLowerCase(Or(Or(userRegion, reg), "sea"))
    IN  IF userInput \in validRegions
        THEN [region |-> userInput,
              platform |-> regionalToDefaultPlatform[userInput]]
        ELSE IF userInput \in validPlatforms
        THEN [platform |-> userInput,
              region |-> Or(platformToRegional[userInput], "sea")]
        ELSE [region |-> reg, platform |-> plat]

\* lines 147-205
resolveRegionAndPlatform(reg, plat, userRegion, forAccountAPI, forMatchAPI) ==
    LET userInput == ToLowerCase(Or(Or(userRegion, reg), "sea"))
        resolved ==
            IF userInput \in validRegions
            THEN [region |-> userInput,
                  platform |-> regionalToDefaultPlatform[userInput]]
            ELSE IF userInput \in validPlatforms
            THEN [platform |-> userInput,
                  region |-> Or(platformToRegional[userInput], "sea")]
            ELSE [region |-> reg, platform |-> plat]
    IN  IF forAccountAPI /\ resolved.region = "sea"
        THEN [resolved EXCEPT !.region = "asia"]
        ELSE resolved

\* lines 316-326: the host of the URL processQueue calls
BaseURLHost(reg, plat, userRegion, useAccountAPI, useMatchAPI) ==
    LET r == resolveRegionAndPlatform(reg, plat, Or(userRegion, Null),
                                      useAccountAPI, useMatchAPI)
    IN  IF useAccountAPI THEN r.region
        ELSE IF useMatchAPI THEN r.region
        ELSE r.platform

\* no accessor is running
NoRun == [pc |-> "idle"]

Init ==
    /\ now \in StartTimes
    /\ nextCleanup = now + cleanupInterval
    /\ requestQueue = << >>
    /\ isProcessing = FALSE
    /\ requestTimestamps = << >>
    /\ lastRequestTime = 0
    /\ \E secrets \in KeyConfigs :
         LET g == getNextAPIKey(loadAPIKeys(secrets), 0, now)
         IN  apiKeys = g.keys /\ currentKeyIndex = g.idx
    /\ \E n0 \in InitMinuteRequests :
         minuteStats = IF n0 = 0 THEN << >>
                       ELSE [b \in {MinuteBucket(now)} |->
                               [requests |-> n0, errors |-> 0, cacheHits |-> 0]]
    /\ timers = {}
    /\ loops = << >>
    /\ nextId = 1
    /\ promises = << >>
    /\ hist = NoHist
    /\ dispatched = << >>
    /\ order = << >>
    /\ minuteCalls = [bucket |-> MinuteBucket(now), calls |-> 0]
    /\ memoryCache = << >>
    /\ diskCache = << >>
    /\ call = NoCall
    /\ picks = << >>
    /\ stored = << >>
    /\ keyLog = [k \in 1..Len(apiKeys) |-> 0]
    /\ region = Constructor(Null).region
    /\ platform = Constructor(Null).platform
    /\ run = NoRun

Activations == 1..Len(loops)

\* a caller invokes makeRequest (lines 236-250)
MakeRequest(limit) ==
    /\ nextId <= limit
    /\ Len(apiKeys) # 0
    /\ Commit(makeRequest(St, nextId))
    /\ nextId' = nextId + 1
    /\ UNCHANGED << now, nextCleanup >>

\* a setTimeout the loop awaits has fired: lines 263, 215, 231 and 474
Wake(a) ==
    /\ loops[a].pc \in {"admitSleep", "throttleWait1", "throttleWait2", "successDelay"}
    /\ now >= loops[a].wakeAt
    /\ Commit(CASE loops[a].pc = "admitSleep" -> LoopHead(St, a)
                [] loops[a].pc = "throttleWait1" -> ThrottleTrack(St, a)
                [] loops[a].pc = "throttleWait2" ->
                       [St EXCEPT !.loops[a].pc = "throttled"]
                [] loops[a].pc = "successDelay" -> AfterKeyLoop(St, a))
    /\ UNCHANGED << now, nextCleanup, nextId >>

\* throttleRequest has returned: the loop takes the head of the queue (270).
\* Shifting an empty queue throws; lines 511-526 then end the loop.
ShiftRequest(a) ==
    /\ loops[a].pc = "throttled"
    /\ Commit(IF Len(requestQueue) = 0
              THEN [St EXCEPT !.loops[a] = IdleLoop, !.ip = FALSE]
              ELSE Shift(St, a))
    /\ UNCHANGED << now, nextCleanup, nextId >>

\* the upstream decides its reply to the call in flight and when it arrives;
\* a call without a response ends at the timeout of line 362
Upstream(a, reply, latency) ==
    /\ loops[a].pc = "inflight"
    /\ loops[a].reply = NoReply
    /\ loops' = [loops EXCEPT ![a].reply = reply,
                              ![a].wakeAt = now + (IF reply.http = 0
                                                   THEN requestTimeout
                                                   ELSE latency)]
    /\ UNCHANGED << now, nextCleanup, requestQueue, isProcessing,
                    requestTimestamps, lastRequestTime, apiKeys, currentKeyIndex,
                    minuteStats, timers, nextId, promises, hist, dispatched,
                    order, minuteCalls, direct, svc >>

\* the awaited upstream call returns or throws
Respond(a) ==
    /\ loops[a].pc = "inflight"
    /\ loops[a].reply # NoReply
    /\ now >= loops[a].wakeAt
    /\ Commit(HandleReply(St, a))
    /\ UNCHANGED << now, nextCleanup, nextId >>

\* the cooldown timer of recordError fires (APIKeyManager.js 140-144)
CooldownFire(t) ==
    /\ t \in timers
    /\ now >= t.at
    /\ apiKeys' = [apiKeys EXCEPT ![t.k].enabled = TRUE, ![t.k].errorCount = 0]
    /\ timers' = timers \ {t}
    /\ UNCHANGED << now, nextCleanup, requestQueue, isProcessing,
                    requestTimestamps, lastRequestTime, currentKeyIndex,
                    minuteStats, loops, nextId, promises, hist, dispatched,
                    order, minuteCalls, direct, svc >>

\* the setInterval of the constructor (lines 136-139)
Cleanup ==
    /\ now >= nextCleanup
    /\ requestTimestamps' =
           SelectSeq(requestTimestamps, LAMBDA x : x > now - cleanupInterval)
    /\ nextCleanup' = nextCleanup + cleanupInterval
    /\ UNCHANGED << now, isProcessing, requestQueue, lastRequestTime, apiKeys,
                    currentKeyIndex, minuteStats, timers, loops, nextId,
                    promises, hist, dispatched, order, minuteCalls,
                    direct, svc >>

\* due times of the pending timers and of the reply in flight
Deadlines ==
    { loops[a].wakeAt : a \in { x \in Activations : loops[x].pc # "none" } }
        \cup { t.at : t \in timers }

\* the event loop is idle until the next due time: the clock moves there.
\* The clock stands still while nothing but the cleanup interval is pending.
Tick ==
    /\ Deadlines # {}
    /\ \A a \in Activations :
          /\ loops[a].pc # "throttled"
          /\ ~(loops[a].pc = "inflight" /\ loops[a].reply = NoReply)
    /\ LET d == SetMin(Deadlines \cup {nextCleanup})
       IN  /\ d > now
           /\ now' = d
           /\ dispatched' = SelectSeq(dispatched, LAMBDA x : x > d - rateLimitWindow)
    /\ UNCHANGED << nextCleanup, requestQueue, isProcessing, requestTimestamps,
                    lastRequestTime, apiKeys, currentKeyIndex, minuteStats,
                    timers, loops, nextId, promises, hist, order,
                    minuteCalls, direct, svc >>

Next ==
    \/ MakeRequest(MaxRequests)
    \/ \E a \in Activations : Wake(a)
    \/ \E a \in Activations : ShiftRequest(a)
    \/ \E a \in Activations : \E reply \in Replies : \E latency \in Latencies :
          Upstream(a, reply, latency)
    \/ \E a \in Activations : Respond(a)
    \/ \E t \in timers : CooldownFire(t)
    \/ Cleanup
    \/ Tick

Spec == Init /\ [][Next]_vars

\* the same system with the weak fairness of the event loop: a due timer
\* fires, an upstream call is answered or times out, the clock moves on
Progress ==
    \/ \E a \in Activations : Wake(a)
    \/ \E a \in Activations : ShiftRequest(a)
    \/ \E a \in Activations : \E reply \in Replies : \E latency \in Latencies :
          Upstream(a, reply, latency)
    \/ \E a \in Activations : Respond(a)
    \/ \E t \in timers : CooldownFire(t)
    \/ Cleanup
    \/ Tick

\* the service started one second before a minute boundary with the minute
\* bucket one short of the limit and at most two configured credentials, so
\* that the admission sleep, the spacing wait, the credential loop and the
\* cooldown timer all occur within few steps
InitLive ==
    /\ Init
    /\ now = 2 * minuteMs - rateLimitWindow
    /\ MinuteRequests(minuteStats, now) = requestsPerMinute - 1
    /\ Len(apiKeys) <= 2

LiveSpec == InitLive /\ [][Next]_vars /\ WF_vars(Progress)

\* a burst: every credential usable, an empty minute bucket, many callers,
\* and an upstream that answers 401 to every call at once
InitBurst ==
    /\ Init
    /\ now = 60000
    /\ Len(apiKeys) = MaxKeys
    /\ \A i \in 1..Len(apiKeys) : apiKeys[i].key # ""
    /\ minuteStats = << >>

NextBurst ==
    \/ MakeRequest(BurstRequests)
    \/ \E a \in Activations : Wake(a)
    \/ \E a \in Activations : ShiftRequest(a)
    \/ \E a \in Activations : \E reply \in BurstReplies : \E latency \in Latencies :
          Upstream(a, reply, latency)
    \/ \E a \in Activations : Respond(a)
    \/ Tick

SpecBurst == InitBurst /\ [][NextBurst]_vars

\* ---------------------------------------------------------- CacheService
\* strings are sequences of characters
Chars(name) ==
    CASE name = "matchIds" -> << "m", "a", "t", "c", "h", "I", "d", "s" >>
      [] name = "matchHistoryBatch" -> << "m", "a", "t", "c", "h", "H", "i", "s", "t", "o", "r", "y", "B", "a", "t", "c", "h" >>
      [] name = "matchHistoryFull" -> << "m", "a", "t", "c", "h", "H", "i", "s", "t", "o", "r", "y", "F", "u", "l", "l" >>
      [] name = "matchDetails" -> << "m", "a", "t", "c", "h", "D", "e", "t", "a", "i", "l", "s" >>
      [] name = "summoner" -> << "s", "u", "m", "m", "o", "n", "e", "r" >>
      [] name = "account" -> << "a", "c", "c", "o", "u", "n", "t" >>
      [] name = "ann" -> << "a", "n", "n" >>
      [] name = "euw" -> << "e", "u", "w" >>
      [] name = "puuid1" -> << "p", "u", "u", "i", "d", "1" >>
      [] name = "m1" -> << "m", "1" >>
      [] name = "m2" -> << "m", "2" >>
      [] name = "m3" -> << "m", "3" >>
      [] name = "m4" -> << "m", "4" >>
      [] name = "m5" -> << "m", "5" >>
      [] name = "m6" -> << "m", "6" >>
      [] name = "m7" -> << "m", "7" >>
      [] name = "m8" -> << "m", "8" >>
      [] name = "m9" -> << "m", "9" >>
      [] name = "m10" -> << "m", "1", "0" >>
      [] name = "m11" -> << "m", "1", "1" >>
      [] name = "m12" -> << "m", "1", "2" >>
      [] name = "m13" -> << "m", "1", "3" >>
      [] name = "m14" -> << "m", "1", "4" >>
      [] name = "m15" -> << "m", "1", "5" >>
      [] name = "m16" -> << "m", "1", "6" >>
      [] name = "m17" -> << "m", "1", "7" >>
      [] name = "m18" -> << "m", "1", "8" >>
      [] name = "m19" -> << "m", "1", "9" >>
      [] name = "m20" -> << "m", "2", "0" >>
      [] name = "m21" -> << "m", "2", "1" >>
      [] name = "m22" -> << "m", "2", "2" >>
      [] name = "m23" -> << "m", "2", "3" >>
      [] name = "m24" -> << "m", "2", "4" >>
      [] name = "m25" -> << "m", "2", "5" >>
      [] name = "m26" -> << "m", "2", "6" >>
      [] name = "m27" -> << "m", "2", "7" >>
      [] name = "m28" -> << "m", "2", "8" >>
      [] name = "m29" -> << "m", "2", "9" >>
      [] name = "m30" -> << "m", "3", "0" >>
      [] name = "m31" -> << "m", "3", "1" >>
      [] name = "m32" -> << "m", "3", "2" >>
      [] name = "m33" -> << "m", "3", "3" >>
      [] name = "m34" -> << "m", "3", "4" >>
      [] name = "m35" -> << "m", "3", "5" >>
      [] name = "m36" -> << "m", "3", "6" >>
      [] name = "m37" -> << "m", "3", "7" >>
      [] name = "m38" -> << "m", "3", "8" >>
      [] name = "m39" -> << "m", "3", "9" >>
      [] name = "m40" -> << "m", "4", "0" >>
      [] name = "m41" -> << "m", "4", "1" >>
      [] name = "m42" -> << "m", "4", "2" >>
      [] name = "m43" -> << "m", "4", "3" >>
      [] name = "m44" -> << "m", "4", "4" >>
      [] name = "m45" -> << "m", "4", "5" >>
      [] name = "m46" -> << "m", "4", "6" >>
      [] name = "m47" -> << "m", "4", "7" >>
      [] name = "m48" -> << "m", "4", "8" >>
      [] name = "m49" -> << "m", "4", "9" >>
      [] name = "m50" -> << "m", "5", "0" >>
      [] name = "m51" -> << "m", "5", "1" >>
      [] name = "default" -> << "d", "e", "f", "a", "u", "l", "t" >>
      [] name = "sea" -> << "s", "e", "a" >>
      [] name = "a_b" -> << "a", "_", "b" >>
      [] name = "b_c" -> << "b", "_", "c" >>
      [] name = "a" -> << "a" >>
      [] name = "c" -> << "c" >>

\* the parameters the accessors of RiotAPIService join into a key string
CacheUsers ==
    { [prefix |-> "account", params |-> << << "a", "n", "n" >>, << "e", "u", "w" >>, << "d", "e", "f", "a", "u", "l", "t" >> >>],
      [prefix |-> "summoner", params |-> << << "p", "u", "u", "i", "d", "1" >>, << "d", "e", "f", "a", "u", "l", "t" >> >>] }

\* crypto md5, hex digest: its values on the key strings of the accessors
Md5(keyString) ==
    CASE keyString = << "a", "c", "c", "o", "u", "n", "t", "_", "a", "n", "n", "_", "e", "u", "w", "_", "d", "e", "f", "a", "u", "l", "t" >> ->
           << "c", "3", "9", "7", "a", "a", "9", "5", "d", "6", "3", "e", "0", "7", "0", "a", "a", "e", "2", "c", "1", "c", "f", "d", "c", "5", "5", "2", "a", "e", "a", "d" >>
      [] keyString = << "a", "c", "c", "o", "u", "n", "t", "_", "a", "_", "b", "_", "c", "_", "d", "e", "f", "a", "u", "l", "t" >> ->
           << "f", "6", "f", "f", "a", "e", "9", "6", "0", "1", "6", "2", "c", "e", "a", "f", "7", "c", "7", "9", "d", "0", "7", "d", "e", "9", "7", "7", "b", "0", "b", "0" >>
      [] keyString = << "s", "u", "m", "m", "o", "n", "e", "r", "_", "p", "u", "u", "i", "d", "1", "_", "d", "e", "f", "a", "u", "l", "t" >> ->
           << "0", "b", "e", "8", "b", "b", "4", "4", "8", "0", "e", "d", "f", "7", "a", "d", "7", "e", "0", "e", "6", "4", "a", "5", "c", "2", "6", "c", "2", "0", "0", "0" >>
      [] keyString = << "m", "a", "t", "c", "h", "D", "e", "t", "a", "i", "l", "s", "_", "m", "1", "_", "d", "e", "f", "a", "u", "l", "t" >> ->
           << "3", "a", "f", "4", "3", "d", "4", "4", "e", "d", "3", "c", "a", "c", "a", "c", "e", "0", "f", "9", "8", "7", "9", "b", "f", "d", "6", "b", "3", "d", "b", "1" >>
      [] keyString = << "a", "c", "c", "o", "u", "n", "t", "_", "a", "n", "n", "_", "e", "u", "w", "_", "s", "e", "a" >> ->
           << "4", "7", "d", "0", "5", "9", "b", "b", "2", "2", "0", "6", "5", "7", "f", "f", "9", "b", "8", "f", "c", "1", "7", "1", "c", "5", "c", "8", "5", "4", "9", "6" >>
      [] keyString = << "s", "u", "m", "m", "o", "n", "e", "r", "_", "p", "u", "u", "i", "d", "1", "_", "s", "e", "a" >> ->
           << "1", "2", "b", "5", "d", "c", "3", "3", "d", "4", "f", "a", "6", "7", "2", "e", "e", "2", "9", "9", "6", "e", "c", "5", "b", "3", "e", "a", "f", "5", "b", "d" >>
      [] keyString = << "m", "a", "t", "c", "h", "D", "e", "t", "a", "i", "l", "s", "_", "m", "1", "_", "s", "e", "a" >> ->
           << "3", "4", "d", "1", "a", "4", "f", "b", "5", "2", "4", "1", "5", "c", "7", "9", "2", "c", "b", "9", "2", "6", "5", "6", "7", "5", "d", "8", "5", "2", "d", "e" >>
      [] keyString = << "m", "a", "t", "c", "h", "D", "e", "t", "a", "i", "l", "s", "_", "m", "2", "_", "d", "e", "f", "a", "u", "l", "t" >> ->
           << "e", "d", "3", "7", "6", "d", "3", "c", "3", "c", "3", "d", "a", "8", "1", "1", "b", "d", "4", "6", "4", "5", "0", "7", "d", "3", "d", "7", "0", "d", "c", "7" >>
      [] keyString = << "m", "a", "t", "c", "h", "D", "e", "t", "a", "i", "l", "s", "_", "m", "3", "_", "d", "e", "f", "a", "u", "l", "t" >> ->
           << "e", "f", "a", "6", "7", "2", "8", "e", "a", "8", "7", "2", "b", "3", "d", "1", "5", "0", "0", "1", "1", "4", "4", "f", "0", "2", "2", "1", "4", "e", "c", "5" >>
      [] keyString = << "m", "a", "t", "c", "h", "D", "e", "t", "a", "i", "l", "s", "_", "m", "4", "_", "d", "e", "f", "a", "u", "l", "t" >> ->
           << "4", "3", "5", "a", "c", "c", "8", "3", "6", "d", "a", "0", "f", "b", "0", "7", "5", "1", "3", "1", "2", "d", "5", "b", "8", "b", "4", "e", "3", "2", "b", "7" >>
      [] keyString = << "m", "a", "t", "c", "h", "D", "e", "t", "a", "i", "l", "s", "_", "m", "5", "_", "d", "e", "f", "a", "u", "l", "t" >> ->
           << "c", "b", "a", "a", "0", "d", "4", "a", "2", "1", "e", "d", "c", "0", "7", "0", "f", "f", "f", "c", "4", "7", "8", "4", "8", "f", "e", "0", "6", "a", "9", "e" >>
      [] keyString = << "m", "a", "t", "c", "h", "D", "e", "t", "a", "i", "l", "s", "_", "m", "6", "_", "d", "e", "f", "a", "u", "l", "t" >> ->
           << "e", "6", "e", "7", "d", "a", "6", "a", "6", "1", "a", "a", "2", "1", "f", "8", "b", "3", "e", "2", "d", "4", "e", "f", "0", "3", "1", "8", "b", "7", "c", "7" >>
      [] keyString = << "m", "a", "t", "c", "h", "D", "e", "t", "a", "i", "l", "s", "_", "m", "7", "_", "d", "e", "f", "a", "u", "l", "t" >> ->
           << "7", "c", "9", "4", "d", "c", "b", "2", "2", "9", "3", "1", "8", "5", "e", "4", "f", "d", "b", "0", "0", "0", "f", "0", "6", "8", "7", "5", "8", "1", "d", "e" >>
      [] keyString = << "m", "a", "t", "c", "h", "D", "e", "t", "a", "i", "l", "s", "_", "m", "8", "_", "d", "e", "f", "a", "u", "l", "t" >> ->
           << "1", "3", "3", "a", "3", "4", "4", "a", "9", "2", "9", "8", "7", "3", "1", "6", "0", "3", "8", "2", "d", "e", "0", "5", "9", "a", "2", "3", "a", "0", "3", "1" >>
      [] keyString = << "m", "a", "t", "c", "h", "D", "e", "t", "a", "i", "l", "s", "_", "m", "9", "_", "d", "e", "f", "a", "u", "l", "t" >> ->
           << "e", "0", "1", "4", "a", "0", "b", "1", "c", "4", "e", "d", "9", "a", "c", "f", "8", "1", "7", "f", "6", "6", "2", "d", "3", "d", "9", "c", "2", "f", "3", "2" >>
      [] keyString = << "m", "a", "t", "c", "h", "D", "e", "t", "a", "i", "l", "s", "_", "m", "1", "0", "_", "d", "e", "f", "a", "u", "l", "t" >> ->
           << "1", "d", "5", "9", "1", "1", "2", "3", "b", "0", "0", "2", "d", "a", "9", "a", "6", "d", "f", "b", "0", "a", "6", "b", "6", "7", "9", "4", "4", "6", "9", "6" >>
      [] keyString = << "m", "a", "t", "c", "h", "D", "e", "t", "a", "i", "l", "s", "_", "m", "1", "1", "_", "d", "e", "f", "a", "u", "l", "t" >> ->
           << "7", "6", "f", "7", "5", "6", "a", "0", "e", "4", "f", "a", "e", "5", "f", "2", "b", "c", "0", "e", "d", "b", "a", "a", "a", "9", "4", "d", "1", "c", "0", "1" >>
      [] keyString = << "m", "a", "t", "c", "h", "D", "e", "t", "a", "i", "l", "s", "_", "m", "1", "2", "_", "d", "e", "f", "a", "u", "l", "t" >> ->
           << "8", "c", "d", "a", "7", "1", "6", "3", "a", "e", "7", "4", "2", "8", "1", "e", "9", "3", "5", "2", "4", "d", "2", "1", "d", "8", "6", "7", "8", "4", "5", "e" >>
      [] keyString = << "m", "a", "t", "c", "h", "D", "e", "t", "a", "i", "l", "s", "_", "m", "1", "3", "_", "d", "e", "f", "a", "u", "l", "t" >> ->
           << "8", "f", "d", "e", "5", "1", "3", "5", "2", "9", "6", "a", "c", "9", "c", "1", "8", "d", "d", "b", "5", "7", "8", "2", "2", "9", "2", "7", "8", "c", "0", "f" >>
      [] keyString = << "m", "a", "t", "c", "h", "D", "e", "t", "a", "i", "l", "s", "_", "m", "1", "4", "_", "d", "e", "f", "a", "u", "l", "t" >> ->
           << "1", "2", "c", "0", "2", "1", "1", "3", "3", "b", "9", "5", "5", "4", "c", "d", "3", "d", "c", "6", "2", "c", "1", "8", "a", "6", "0", "e", "f", "f", "4", "7" >>
      [] keyString = << "m", "a", "t", "c", "h", "D", "e", "t", "a", "i", "l", "s", "_", "m", "1", "5", "_", "d", "e", "f", "a", "u", "l", "t" >> ->
           << "3", "1", "f", "a", "3", "4", "1", "c", "e", "9", "7", "8", "4", "d", "a", "4", "6", "a", "2", "4", "d", "0", "5", "f", "9", "0", "3", "f", "5", "9", "1", "7" >>
      [] keyString = << "m", "a", "t", "c", "h", "D", "e", "t", "a", "i", "l", "s", "_", "m", "1", "6", "_", "d", "e", "f", "a", "u", "l", "t" >> ->
           << "6", "c", "7", "0", "d", "a", "1", "6", "f", "7", "4", "6", "7", "a", "5", "1", "1", "5", "5", "d", "d", "c", "b", "b", "6", "1", "a", "b", "c", "c", "5", "3" >>
      [] keyString = << "m", "a", "t", "c", "h", "D", "e", "t", "a", "i", "l", "s", "_", "m", "1", "7", "_", "d", "e", "f", "a", "u", "l", "t" >> ->
           << "2", "6", "5", "9", "e", "d", "3", "a", "5", "7", "2", "c", "3", "b", "1", "6", "3", "2", "a", "6", "7", "5", "3", "4", "9", "1", "5", "1", "f", "0", "d", "6" >>
      [] keyString = << "m", "a", "t", "c", "h", "D", "e", "t", "a", "i", "l", "s", "_", "m", "1", "8", "_", "d", "e", "f", "a", "u", "l", "t" >> ->
           << "7", "f", "f", "6", "d", "7", "1", "b", "6", "b", "e", "1", "c", "2", "5", "d", "e", "a", "5", "1", "f", "0", "3", "0", "5", "6", "1", "0", "0", "a", "2", "3" >>
      [] keyString = << "m", "a", "t", "c", "h", "D", "e", "t", "a", "i", "l", "s", "_", "m", "1", "9", "_", "d", "e", "f", "a", "u", "l", "t" >> ->
           << "3", "0", "b", "8", "d", "6", "b", "6", "5", "1", "b", "1", "c", "b", "f", "7", "5", "a", "e", "4", "6", "e", "9", "4", "5", "0", "4", "f", "b", "0", "f", "f" >>
      [] keyString = << "m", "a", "t", "c", "h", "D", "e", "t", "a", "i", "l", "s", "_", "m", "2", "0", "_", "d", "e", "f", "a", "u", "l", "t" >> ->
           << "e", "0", "8", "b", "1", "6", "9", "b", "3", "3", "3", "8", "b", "d", "3", "f", "c", "c", "d", "c", "e", "d", "c", "5", "d", "e", "6", "f", "e", "9", "b", "f" >>
      [] keyString = << "m", "a", "t", "c", "h", "D", "e", "t", "a", "i", "l", "s", "_", "m", "2", "1", "_", "d", "e", "f", "a", "u", "l", "t" >> ->
           << "e", "c", "a", "a", "b", "1", "b", "c", "0", "6", "1", "9", "b", "9", "d", "d", "4", "f", "1", "f", "5", "b", "5", "8", "b", "1", "0", "5", "9", "d", "9", "b" >>
      [] keyString = << "m", "a", "t", "c", "h", "D", "e", "t", "a", "i", "l", "s", "_", "m", "2", "2", "_", "d", "e", "f", "a", "u", "l", "t" >> ->
           << "c", "3", "1", "7", "c", "e", "5", "b", "f", "a", "c", "8", "9", "b", "a", "e", "2", "7", "8", "8", "1", "e", "d", "c", "5", "1", "0", "f", "d", "c", "e", "f" >>
      [] keyString = << "m", "a", "t", "c", "h", "D", "e", "t", "a", "i", "l", "s", "_", "m", "2", "3", "_", "d", "e", "f", "a", "u", "l", "t" >> ->
           << "0", "4", "d", "8", "f", "8", "0", "7", "b", "2", "e", "4", "5", "8", "8", "a", "c", "6", "b", "d", "c", "a", "a", "a", "b", "6", "2", "1", "8", "3", "c", "f" >>
      [] keyString = << "m", "a", "t", "c", "h", "D", "e", "t", "a", "i", "l", "s", "_", "m", "2", "4", "_", "d", "e", "f", "a", "u", "l", "t" >> ->
           << "5", "9", "7", "1", "9", "1", "4", "b", "c", "2", "4", "6", "c", "c", "5", "2", "4", "6", "f", "5", "7", "d", "f", "d", "a", "1", "8", "b", "4", "1", "e", "5" >>
      [] keyString = << "m", "a", "t", "c", "h", "D", "e", "t", "a", "i", "l", "s", "_", "m", "2", "5", "_", "d", "e", "f", "a", "u", "l", "t" >> ->
           << "1", "0", "6", "e", "c", "f", "a", "3", "1", "b", "7", "a", "8", "c", "2", "5", "7", "d", "1", "d", "5", "7", "4", "6", "2", "e", "d", "9", "e", "f", "b", "f" >>
      [] keyString = << "m", "a", "t", "c", "h", "D", "e", "t", "a", "i", "l", "s", "_", "m", "2", "6", "_", "d", "e", "f", "a", "u", "l", "t" >> ->
           << "c", "f", "a", "3", "2", "3", "b", "2", "6", "f", "d", "6", "d", "d", "4", "d", "b", "e", "5", "0", "4", "c", "3", "d", "7", "d", "e", "c", "d", "b", "2", "c" >>
      [] keyString = << "m", "a", "t", "c", "h", "D", "e", "t", "a", "i", "l", "s", "_", "m", "2", "7", "_", "d", "e", "f", "a", "u", "l", "t" >> ->
           << "d", "a", "0", "d", "c", "d", "0", "d", "8", "9", "f", "6", "0", "d", "2", "a", "8", "b", "7", "3", "c", "4", "6", "8", "8", "c", "a", "5", "a", "4", "c", "d" >>
      [] keyString = << "m", "a", "t", "c", "h", "D", "e", "t", "a", "i", "l", "s", "_", "m", "2", "8", "_", "d", "e", "f", "a", "u", "l", "t" >> ->
           << "d", "9", "9", "4", "2", "5", "8", "b", "5", "5", "f", "2", "3", "5", "b", "7", "a", "0", "a", "5", "8", "c", "7", "e", "d", "0", "2", "4", "7", "e", "8", "4" >>
      [] keyString = << "m", "a", "t", "c", "h", "D", "e", "t", "a", "i", "l", "s", "_", "m", "2", "9", "_", "d", "e", "f", "a", "u", "l", "t" >> ->
           << "6", "c", "6", "3", "a", "b", "e", "b", "f", "4", "d", "9", "3", "0", "6", "5", "8", "a", "8", "a", "b", "e", "7", "e", "8", "8", "4", "d", "a", "1", "1", "3" >>
      [] keyString = << "m", "a", "t", "c", "h", "D", "e", "t", "a", "i", "l", "s", "_", "m", "3", "0", "_", "d", "e", "f", "a", "u", "l", "t" >> ->
           << "5", "8", "4", "a", "5", "7", "b", "d", "2", "6", "8", "4", "9", "e", "e", "7", "5", "f", "b", "e", "3", "c", "c", "2", "b", "c", "9", "b", "7", "2", "a", "c" >>
      [] keyString = << "m", "a", "t", "c", "h", "D", "e", "t", "a", "i", "l", "s", "_", "m", "3", "1", "_", "d", "e", "f", "a", "u", "l", "t" >> ->
           << "2", "e", "4", "6", "1", "0", "6", "0", "e", "6", "8", "a", "3", "c", "9", "b", "d", "6", "2", "b", "2", "8", "7", "8", "1", "1", "6", "3", "2", "3", "d", "d" >>
      [] keyString = << "m", "a", "t", "c", "h", "D", "e", "t", "a", "i", "l", "s", "_", "m", "3", "2", "_", "d", "e", "f", "a", "u", "l", "t" >> ->
           << "8", "1", "5", "4", "8", "e", "5", "f", "c", "f", "c", "b", "3", "9", "c", "3", "9", "b", "5", "d", "d", "b", "2", "7", "1", "b", "f", "3", "f", "0", "7", "8" >>
      [] keyString = << "m", "a", "t", "c", "h", "D", "e", "t", "a", "i", "l", "s", "_", "m", "3", "3", "_", "d", "e", "f", "a", "u", "l", "t" >> ->
           << "4", "6", "d", "a", "b", "f", "2", "2", "4", "d", "5", "f", "9", "d", "c", "3", "3", "6", "4", "d", "c", "5", "8", "a", "e", "6", "0", "5", "4", "0", "7", "c" >>
      [] keyString = << "m", "a", "t", "c", "h", "D", "e", "t", "a", "i", "l", "s", "_", "m", "3", "4", "_", "d", "e", "f", "a", "u", "l", "t" >> ->
           << "b", "1", "5", "2", "9", "2", "d", "b", "3", "0", "f", "5", "3", "f", "c", "3", "a", "4", "8", "c", "8", "1", "6", "7", "f", "7", "e", "d", "2", "5", "8", "e" >>
      [] keyString = << "m", "a", "t", "c", "h", "D", "e", "t", "a", "i", "l", "s", "_", "m", "3", "5", "_", "d", "e", "f", "a", "u", "l", "t" >> ->
           << "0", "e", "f", "2", "1", "b", "8", "1", "8", "7", "a", "b", "9", "0", "d", "f", "1", "4", "f", "4", "1", "d", "e", "c", "5", "f", "2", "4", "3", "c", "3", "9" >>
      [] keyString = << "m", "a", "t", "c", "h", "D", "e", "t", "a", "i", "l", "s", "_", "m", "3", "6", "_", "d", "e", "f", "a", "u", "l", "t" >> ->
           << "1", "a", "5", "e", "6", "0", "5", "7", "a", "f", "d", "f", "b", "e", "7", "e", "a", "4", "1", "f", "0", "7", "9", "5", "e", "a", "e", "5", "6", "0", "0", "c" >>
      [] keyString = << "m", "a", "t", "c", "h", "D", "e", "t", "a", "i", "l", "s", "_", "m", "3", "7", "_", "d", "e", "f", "a", "u", "l", "t" >> ->
           << "c", "a", "e", "9", "8", "0", "e", "b", "8", "6", "e", "1", "9", "3", "5", "8", "4", "a", "6", "0", "f", "8", "d", "1", "6", "3", "f", "b", "1", "0", "7", "4" >>
      [] keyString = << "m", "a", "t", "c", "h", "D", "e", "t", "a", "i", "l", "s", "_", "m", "3", "8", "_", "d", "e", "f", "a", "u", "l", "t" >> ->
           << "e", "0", "3", "8", "6", "a", "9", "2", "2", "5", "e", "4", "0", "7", "4", "0", "2", "4", "6", "f", "1", "1", "8", "1", "2", "0", "0", "3", "2", "2", "8", "c" >>
      [] keyString = << "m", "a", "t", "c", "h", "D", "e", "t", "a", "i", "l", "s", "_", "m", "3", "9", "_", "d", "e", "f", "a", "u", "l", "t" >> ->
           << "c", "e", "9", "9", "6", "7", "2", "d", "a", "2", "6", "c", "c", "f", "3", "4", "2", "d", "2", "9", "4", "b", "b", "c", "0", "c", "3", "5", "3", "c", "4", "4" >>
      [] keyString = << "m", "a", "t", "c", "h", "D", "e", "t", "a", "i", "l", "s", "_", "m", "4", "0", "_", "d", "e", "f", "a", "u", "l", "t" >> ->
           << "3", "d", "3", "0", "7", "5", "2", "9", "9", "4", "e", "f", "8", "8", "7", "b", "b", "7", "f", "d", "3", "a", "f", "7", "a", "f", "c", "6", "2", "9", "0", "d" >>
      [] keyString = << "m", "a", "t", "c", "h", "D", "e", "t", "a", "i", "l", "s", "_", "m", "4", "1", "_", "d", "e", "f", "a", "u", "l", "t" >> ->
           << "2", "6", "a", "b", "0", "0", "d", "0", "4", "3", "8", "7", "a", "8", "a", "9", "8", "1", "a", "b", "c", "5", "9", "f", "c", "5", "0", "3", "5", "3", "1", "1" >>
      [] keyString = << "m", "a", "t", "c", "h", "D", "e", "t", "a", "i", "l", "s", "_", "m", "4", "2", "_", "d", "e", "f", "a", "u", "l", "t" >> ->
           << "6", "4", "e", "2", "4", "d", "4", "6", "d", "7", "8", "d", "0", "2", "2", "b", "f", "5", "2", "b", "3", "0", "2", "3", "0", "4", "a", "4", "f", "c", "e", "3" >>
      [] keyString = << "m", "a", "t", "c", "h", "D", "e", "t", "a", "i", "l", "s", "_", "m", "4", "3", "_", "d", "e", "f", "a", "u", "l", "t" >> ->
           << "e", "8", "9", "5", "7", "5", "d", "a", "7", "3", "1", "7", "7", "5", "b", "e", "0", "1", "1", "7", "9", "3", "9", "6", "6", "0", "7", "8", "3", "2", "6", "4" >>
      [] keyString = << "m", "a", "t", "c", "h", "D", "e", "t", "a", "i", "l", "s", "_", "m", "4", "4", "_", "d", "e", "f", "a", "u", "l", "t" >> ->
           << "e", "a", "8", "8", "b", "a", "b", "7", "a", "d", "6", "8", "0", "e", "9", "c", "9", "4", "1", "9", "2", "d", "8", "a", "2", "b", "4", "8", "f", "e", "e", "e" >>
      [] keyString = << "m", "a", "t", "c", "h", "D", "e", "t", "a", "i", "l", "s", "_", "m", "4", "5", "_", "d", "e", "f", "a", "u", "l", "t" >> ->
           << "8", "0", "b", "7", "2", "1", "2", "c", "e", "3", "a", "9", "8", "d", "f", "1", "6", "3", "a", "7", "b", "d", "c", "1", "2", "b", "c", "f", "0", "6", "4", "c" >>
      [] keyString = << "m", "a", "t", "c", "h", "D", "e", "t", "a", "i", "l", "s", "_", "m", "4", "6", "_", "d", "e", "f", "a", "u", "l", "t" >> ->
           << "0", "c", "1", "9", "a", "5", "9", "7", "c", "4", "3", "6", "1", "5", "4", "d", "c", "0", "8", "d", "8", "6", "6", "8", "0", "0", "7", "7", "5", "9", "5", "6" >>
      [] keyString = << "m", "a", "t", "c", "h", "D", "e", "t", "a", "i", "l", "s", "_", "m", "4", "7", "_", "d", "e", "f", "a", "u", "l", "t" >> ->
           << "4", "0", "3", "f", "d", "e", "d", "b", "7", "8", "3", "8", "1", "2", "9", "2", "a", "2", "7", "a", "d", "1", "1", "b", "0", "a", "8", "b", "9", "4", "c", "8" >>
      [] keyString = << "m", "a", "t", "c", "h", "D", "e", "t", "a", "i", "l", "s", "_", "m", "4", "8", "_", "d", "e", "f", "a", "u", "l", "t" >> ->
           << "6", "2", "c", "e", "6", "3", "d", "a", "b", "8", "a", "0", "3", "9", "2", "1", "1", "4", "f", "2", "9", "9", "9", "4", "2", "5", "9", "1", "e", "3", "2", "1" >>
      [] keyString = << "m", "a", "t", "c", "h", "D", "e", "t", "a", "i", "l", "s", "_", "m", "4", "9", "_", "d", "e", "f", "a", "u", "l", "t" >> ->
           << "6", "3", "f", "5", "b", "b", "3", "7", "6", "9", "3", "8", "f", "3", "e", "c", "8", "1", "f", "5", "7", "0", "f", "3", "1", "6", "8", "d", "9", "8", "a", "b" >>
      [] keyString = << "m", "a", "t", "c", "h", "D", "e", "t", "a", "i", "l", "s", "_", "m", "5", "0", "_", "d", "e", "f", "a", "u", "l", "t" >> ->
           << "1", "4", "a", "5", "8", "3", "b", "6", "6", "8", "1", "a", "0", "4", "4", "7", "3", "6", "2", "3", "1", "e", "4", "5", "3", "5", "e", "7", "3", "2", "8", "1" >>
      [] keyString = << "m", "a", "t", "c", "h", "D", "e", "t", "a", "i", "l", "s", "_", "m", "5", "1", "_", "d", "e", "f", "a", "u", "l", "t" >> ->
           << "6", "2", "a", "e", "c", "3", "2", "f", "c", "3", "1", "1", "c", "d", "4", "9", "2", "a", "d", "d", "b", "d", "8", "e", "9", "6", "d", "a", "4", "3", "d", "4" >>

\* Array.prototype.join('_') of the parameters of generateKey
RECURSIVE Join(_)
Join(params) ==
    IF Len(params) = 0 THEN << >>
    ELSE IF Len(params) = 1 THEN params[1]
    ELSE params[1] \o << "_" >> \o Join(Tail(params))

\* lines 54-58
generateKey(prefix, params) ==
    Md5(Chars(prefix) \o << "_" >> \o Join(params))

\* String.prototype.startsWith
StartsWith(str, head) ==
    Len(str) >= Len(head) /\ SubSeq(str, 1, Len(head)) = head

\* lines 23-31
memoryCacheTTL ==
    [matchIds |-> 2 * hourMs, matchHistoryBatch |-> 3 * hourMs,
     matchDetails |-> 24 * hourMs, summoner |-> 1 * hourMs,
     account |-> 2 * hourMs, matchHistoryFull |-> 4 * hourMs]

\* lines 135-144
getMemoryTTLForKey(key) ==
    IF StartsWith(key, Chars("matchIds") \o << "_" >>) THEN memoryCacheTTL.matchIds
    ELSE IF StartsWith(key, Chars("matchHistoryBatch") \o << "_" >>)
    THEN memoryCacheTTL.matchHistoryBatch
    ELSE IF StartsWith(key, Chars("matchHistoryFull") \o << "_" >>)
    THEN memoryCacheTTL.matchHistoryFull
    ELSE IF StartsWith(key, Chars("matchDetails") \o << "_" >>)
    THEN memoryCacheTTL.matchDetails
    ELSE IF StartsWith(key, Chars("summoner") \o << "_" >>)
    THEN memoryCacheTTL.summoner
    ELSE IF StartsWith(key, Chars("account") \o << "_" >>)
    THEN memoryCacheTTL.account
    ELSE hourMs

\* the methods of the APIMonitor class (APIMonitor.js lines 7-255); calling
\* any other name on the instance throws a TypeError
MonitorMethods ==
    {"ensureStatsDirectory", "loadStats", "saveStats", "getTimeBuckets",
     "recordRequest", "checkAlerts", "getUsageStats", "cleanupOldStats",
     "canMakeRequest"}

MonitorCallThrows(method) == method \notin MonitorMethods

\* payloads: a JSON value, and undefined
Payloads == {"p1", Undefined}

\* the memory tier is a Map: entries [key, data, timestamp] in insertion order
MemIndex(mem, key) ==
    IF \E i \in 1..Len(mem) : mem[i].key = key
    THEN CHOOSE i \in 1..Len(mem) : mem[i].key = key
    ELSE 0

MemDelete(mem, key) == SelectSeq(mem, LAMBDA e : e.key # key)

MemSet(mem, key, entry) ==
    IF MemIndex(mem, key) # 0
    THEN [mem EXCEPT ![MemIndex(mem, key)] = entry]
    ELSE Append(mem, entry)

\* lines 157-169
setMemoryCache(mem, key, data, t) ==
    LET mem1 == IF Len(mem) >= memoryCacheMaxSize THEN Tail(mem) ELSE mem
    IN  MemSet(mem1, key, [key |-> key, data |-> data, timestamp |-> t])

\* JSON.stringify of the cache file content: a data of undefined is left out
Stringify(cacheData) ==
    IF cacheData.data = Undefined
    THEN [timestamp |-> cacheData.timestamp, hasData |-> FALSE, data |-> Null,
          json |-> TRUE]
    ELSE [timestamp |-> cacheData.timestamp, hasData |-> TRUE,
          data |-> cacheData.data, json |-> TRUE]

\* the file fs.writeFileSync leaves when the process dies during the write:
\* a prefix of the JSON text
Truncated(file) ==
    [timestamp |-> file.timestamp, hasData |-> FALSE, data |-> Null,
     json |-> FALSE]

\* JSON.parse throws a SyntaxError on a text that is not JSON
ParseThrows(file) == ~file.json

\* JSON.parse of a cache file
Parse(file) ==
    [timestamp |-> file.timestamp,
     data |-> IF file.hasData THEN file.data ELSE Undefined]

\* fs.unlinkSync of the cache file of a key
Unlink(disk, key) == [k \in DOMAIN disk \ {key} |-> disk[k]]

\* lines 225-242
delete(mem, disk, key) ==
    [mem |-> MemDelete(mem, key), disk |-> Unlink(disk, key),
     value |-> key \in DOMAIN disk]

\* the result of get: what it returns or that it throws, the two tiers
\* after it, and the locals the memory branch computed
GetResult(threw, value, mem, disk, hadMemory, cacheTTL, age) ==
    [threw |-> threw, value |-> value, mem |-> mem, disk |-> disk,
     hadMemory |-> hadMemory, cacheTTL |-> cacheTTL, age |-> age]

\* lines 98-131: the disk tier of get.  An exception inside the try block
\* reaches the catch block of line 128, which calls recordCacheMiss itself.
GetFromDisk(mem, disk, key, t, hadMemory, cacheTTL, age) ==
    LET caught == IF MonitorCallThrows("recordCacheMiss")
                  THEN [threw |-> TRUE, value |-> Null]
                  ELSE [threw |-> FALSE, value |-> Null]
        miss == IF MonitorCallThrows("recordCacheMiss") THEN caught
                ELSE [threw |-> FALSE, value |-> Null]
    IN  IF key \notin DOMAIN disk
        THEN GetResult(miss.threw, miss.value, mem, disk, hadMemory, cacheTTL, age)
        ELSE IF ParseThrows(disk[key])
        THEN GetResult(caught.threw, caught.value, mem, disk, hadMemory,
                       cacheTTL, age)
        ELSE LET cacheData == Parse(disk[key])
             IN  IF cacheData.data # Undefined
                 THEN LET mem1 == setMemoryCache(mem, key, cacheData.data, t)
                          hit == IF MonitorCallThrows("recordCacheHit") THEN caught
                                 ELSE [threw |-> FALSE, value |-> cacheData.data]
                      IN  GetResult(hit.threw, hit.value, mem1, disk, hadMemory,
                                    cacheTTL, age)
                 ELSE LET d == delete(mem, disk, key)
                      IN  GetResult(miss.threw, miss.value, d.mem, d.disk,
                                    hadMemory, cacheTTL, age)

\* lines 78-133, called with a key only (ttl = null)
get(mem, disk, key, t) ==
    LET i == MemIndex(mem, key)
        cacheTTL == getMemoryTTLForKey(key)
        age == IF i # 0 THEN t - mem[i].timestamp ELSE 0
    IN  IF i # 0 /\ age < cacheTTL
        THEN IF MonitorCallThrows("recordCacheHit")
             THEN GetResult(TRUE, Null, mem, disk, TRUE, cacheTTL, age)
             ELSE GetResult(FALSE, mem[i].data, mem, disk, TRUE, cacheTTL, age)
        ELSE IF i # 0
        THEN GetFromDisk(MemDelete(mem, key), disk, key, t, TRUE, cacheTTL, age)
        ELSE GetFromDisk(mem, disk, key, t, FALSE, 0, 0)

\* lines 188-209; writeOk: fs.writeFileSync did not throw
set(mem, disk, key, data, t, writeOk) ==
    LET mem1 == setMemoryCache(mem, key, data, t)
        file == Stringify([timestamp |-> t, data |-> data])
    IN  IF writeOk
        THEN [mem |-> mem1,
              disk |-> [k \in DOMAIN disk \cup {key} |->
                          IF k = key THEN file ELSE disk[k]],
              value |-> TRUE]
        ELSE [mem |-> mem1, disk |-> disk, value |-> FALSE]

\* lines 172-186
cleanupMemoryCache(mem, t) ==
    SelectSeq(mem, LAMBDA e : ~(t - e.timestamp > getMemoryTTLForKey(e.key) * 2))

\* lines 252-271: every file of the cache directory is removed
clearAll(disk) == << >>

\* ---------------------------------- APIKeyManager called directly
\* the variables of the scheduler, which the direct calls leave alone
sched ==
    << nextCleanup, requestQueue, isProcessing, requestTimestamps,
       lastRequestTime, minuteStats, loops, nextId, promises, hist,
       dispatched, order, minuteCalls >>

\* the list getNextAPIKey selects from: the enabled credentials with a
\* secret (line 71), or after the emergency re-enable those with a secret
\* (line 84)
SelectList(keys) ==
    IF Len(UsableIdx(keys)) # 0 THEN UsableIdx(keys)
    ELSE SelectSeq([i \in 1..Len(keys) |-> i], LAMBDA i : keys[i].key # "")

\* classes of status codes: authentication and rate limit
AuthOrRate(errorCode) == errorCode \in {401, 403, 429}

\* the direct calls of recordError happen before the first cooldown can end
DirectCallsOpen == now < minuteMs + cooldownMs

\* getNextAPIKey() (lines 64-124)
CallGetNextAPIKey ==
    /\ Len(picks) < MaxPicks
    /\ LET g == getNextAPIKey(apiKeys, currentKeyIndex, now)
       IN  /\ apiKeys' = g.keys
           /\ currentKeyIndex' = g.idx
           /\ picks' = IF g.ok
                       THEN Append(picks, [k |-> g.k, list |-> SelectList(apiKeys)])
                       ELSE picks
    /\ UNCHANGED << now, timers, memoryCache, diskCache, call, stored, keyLog,
                    sched, svc >>

\* recordError(keyId, errorCode) (lines 126-147)
CallRecordError(k, errorCode) ==
    /\ DirectCallsOpen
    /\ k \in 1..Len(apiKeys)
    /\ apiKeys[k].errorCount < MaxErrorCount
    /\ LET r == recordError(apiKeys, timers, k, errorCode, now)
       IN  /\ apiKeys' = r.keys
           /\ timers' = r.timers
           /\ keyLog' = [keyLog EXCEPT
                  ![k] = IF AuthOrRate(errorCode)
                         THEN Min2(@ + 1, errorThreshold) ELSE 0]
    /\ UNCHANGED << now, currentKeyIndex, memoryCache, diskCache, call, picks,
                    stored, sched, svc >>

\* recordSuccess(keyId) (lines 149-158)
CallRecordSuccess(k) ==
    /\ k \in 1..Len(apiKeys)
    /\ apiKeys' = recordSuccess(apiKeys, k)
    /\ keyLog' = [keyLog EXCEPT ![k] = 0]
    /\ UNCHANGED << now, currentKeyIndex, timers, memoryCache, diskCache, call,
                    picks, stored, sched, svc >>

\* nothing is called until the next cooldown timer is due
CooldownElapse ==
    /\ timers # {}
    /\ now < SetMin({ t.at : t \in timers })
    /\ now' = SetMin({ t.at : t \in timers })
    /\ UNCHANGED << apiKeys, currentKeyIndex, timers, direct, sched, svc >>

\* the key manager of a process with at most two configured credentials
InitKeys ==
    /\ Init
    /\ now = minuteMs
    /\ minuteStats = << >>
    /\ Len(apiKeys) <= 2

NextKeys ==
    \/ CallGetNextAPIKey
    \/ \E k \in 1..Len(apiKeys) : \E errorCode \in ErrorCodes :
          CallRecordError(k, errorCode)
    \/ \E k \in 1..Len(apiKeys) : CallRecordSuccess(k)
    \/ \E t \in timers : CooldownFire(t)
    \/ CooldownElapse

SpecKeys == InitKeys /\ [][NextKeys]_vars

\* ----------------------------------- CacheService called directly
\* the state of APIKeyManager and its history, which the cache leaves alone
keyMgr == << apiKeys, currentKeyIndex, timers, picks, keyLog >>

\* set(generateKey(prefix, ...params), data)
CallSet(u, data, writeOk) ==
    /\ LET key == generateKey(u.prefix, u.params)
           r == set(memoryCache, diskCache, key, data, now, writeOk)
       IN  /\ memoryCache' = r.mem
           /\ diskCache' = r.disk
           /\ call' = [op |-> "set"]
           /\ stored' = IF r.value
                        THEN [k \in DOMAIN stored \cup {key} |->
                                IF k = key THEN data ELSE stored[k]]
                        ELSE [k \in DOMAIN stored \ {key} |-> stored[k]]
    /\ UNCHANGED << now, keyMgr, sched, svc >>

\* get(generateKey(prefix, ...params))
CallGet(u) ==
    /\ LET key == generateKey(u.prefix, u.params)
           r == get(memoryCache, diskCache, key, now)
       IN  /\ memoryCache' = r.mem
           /\ diskCache' = r.disk
           /\ call' = [op |-> "get", prefix |-> u.prefix,
                       threw |-> r.threw, value |-> r.value,
                       hadMemory |-> r.hadMemory, cacheTTL |-> r.cacheTTL,
                       age |-> r.age,
                       onDisk |-> IF key \in DOMAIN diskCache
                                  THEN Parse(diskCache[key]).data ELSE Null,
                       expected |-> IF key \in DOMAIN stored THEN stored[key]
                                    ELSE Null,
                       corrupted |->
                           /\ key \in DOMAIN diskCache
                           /\ \/ ParseThrows(diskCache[key])
                              \/ Parse(diskCache[key]).data = Undefined,
                       fileLeft |-> key \in DOMAIN r.disk,
                       refreshed |->
                           /\ MemIndex(r.mem, key) # 0
                           /\ r.mem[MemIndex(r.mem, key)].timestamp = now
                           /\ key \in DOMAIN diskCache
                           /\ r.mem[MemIndex(r.mem, key)].data
                                  = Parse(diskCache[key]).data]
    /\ UNCHANGED << now, stored, keyMgr, sched, svc >>

\* delete(generateKey(prefix, ...params))
CallDelete(u) ==
    /\ LET key == generateKey(u.prefix, u.params)
           r == delete(memoryCache, diskCache, key)
       IN  /\ memoryCache' = r.mem
           /\ diskCache' = r.disk
           /\ call' = [op |-> "delete"]
           /\ stored' = [k \in DOMAIN stored \ {key} |-> stored[k]]
    /\ UNCHANGED << now, keyMgr, sched, svc >>

\* the lowercased Riot ID parts and the region default that
\* getAccountByRiotId hands to generateKey (RiotAPIService.js line 542)
KeyLists ==
    { << Chars("a_b"), Chars("c"), << "d", "e", "f", "a", "u", "l", "t" >> >>,
      << Chars("a"), Chars("b_c"), << "d", "e", "f", "a", "u", "l", "t" >> >>,
      << Chars("ann"), Chars("euw"), << "d", "e", "f", "a", "u", "l", "t" >> >> }

\* generateKey(prefix, ...params)
CallGenerateKey(prefix, params) ==
    /\ call' = [op |-> "generateKey", prefix |-> prefix, params |-> params,
                value |-> generateKey(prefix, params)]
    /\ UNCHANGED << now, memoryCache, diskCache, stored, keyMgr, sched, svc >>

\* clearAll()
CallClearAll ==
    /\ diskCache' = clearAll(diskCache)
    /\ call' = [op |-> "clearAll"]
    /\ stored' = << >>
    /\ UNCHANGED << now, memoryCache, keyMgr, sched, svc >>

\* the setInterval of the constructor (line 34)
CleanupMemory ==
    /\ memoryCache' = cleanupMemoryCache(memoryCache, now)
    /\ UNCHANGED << now, diskCache, call, stored, keyMgr, sched, svc >>

\* set(generateKey(prefix, ...params), data) of a process that dies inside
\* fs.writeFileSync (line 201) and is started again
CrashDuringWrite(u, data) ==
    /\ LET key == generateKey(u.prefix, u.params)
           r == set(memoryCache, diskCache, key, data, now, TRUE)
       IN  /\ memoryCache' = << >>
           /\ diskCache' = [r.disk EXCEPT ![key] = Truncated(@)]
           /\ stored' = [k \in DOMAIN stored \ {key} |-> stored[k]]
    /\ call' = NoCall
    /\ UNCHANGED << now, keyMgr, sched, svc >>

\* the process restarts: the memory tier is empty, the files remain
Restart ==
    /\ memoryCache' = << >>
    /\ UNCHANGED << now, diskCache, call, stored, keyMgr, sched, svc >>

\* an hour passes
HourElapse ==
    /\ now < minuteMs + MaxHours * hourMs
    /\ now' = now + hourMs
    /\ UNCHANGED << direct, apiKeys, currentKeyIndex, timers, sched, svc >>

InitCache ==
    /\ Init
    /\ now = minuteMs
    /\ minuteStats = << >>
    /\ Len(apiKeys) = 1
    /\ apiKeys[1].key # ""

NextCache ==
    \/ \E u \in CacheUsers : \E data \in Payloads : \E writeOk \in BOOLEAN :
          CallSet(u, data, writeOk)
    \/ \E u \in CacheUsers : CallGet(u)
    \/ \E u \in CacheUsers : CallDelete(u)
    \/ CallClearAll
    \/ \E params \in KeyLists : CallGenerateKey("account", params)
    \/ CleanupMemory
    \/ \E u \in CacheUsers : \E data \in Payloads : CrashDuringWrite(u, data)
    \/ Restart
    \/ HourElapse

SpecCache == InitCache /\ [][NextCache]_vars

\* ------------------------------------------ APIMonitor called directly
\* the number of direct recordRequest calls so far
Records == IF call.op \in {"recordRequest", "canMakeRequest"}
           THEN call.records ELSE 0

\* recordRequest(apiKeyId, endpoint, statusCode, fromCache, duration): what
\* the accessors call on a cache hit (statusCode 200, fromCache true) and
\* what processQueue calls with the status of a reply
CallRecordRequest(statusCode, fromCache) ==
    /\ Records < MaxRecords
    /\ minuteStats' = recordRequest(minuteStats, now, statusCode, fromCache)
    /\ call' = [op |-> "recordRequest", records |-> Records + 1,
                statusCode |-> statusCode, fromCache |-> fromCache,
                before |-> MinuteRequests(minuteStats, now),
                wasAllowed |-> canMakeRequest(minuteStats, now).allowed]
    /\ UNCHANGED << now, nextCleanup, requestQueue, isProcessing,
                    requestTimestamps, lastRequestTime, loops, nextId,
                    promises, hist, dispatched, order, minuteCalls,
                    memoryCache, diskCache, stored, keyMgr, svc >>

\* canMakeRequest()
CallCanMakeRequest ==
    /\ call' = [op |-> "canMakeRequest", records |-> Records,
                value |-> canMakeRequest(minuteStats, now)]
    /\ UNCHANGED << now, memoryCache, diskCache, stored, keyMgr, sched, svc >>

InitMonitor ==
    /\ Init
    /\ now = minuteMs
    /\ Len(apiKeys) = 1
    /\ apiKeys[1].key # ""

NextMonitor ==
    \/ \E statusCode \in {200, 404} : \E fromCache \in BOOLEAN :
          CallRecordRequest(statusCode, fromCache)
    \/ CallCanMakeRequest
    \/ HourElapse

SpecMonitor == InitMonitor /\ [][NextMonitor]_vars

\* ------------------------------------ the memory tier, filled to its limit
\* the key strings k1, k2, ... a process stores under
CacheKey(i) == << "k", ToString(i) >>

\* the keys of the memory tier, in the order of Map.prototype.keys()
MemKeys(mem) == { mem[i].key : i \in 1..Len(mem) }

\* the number of different keys stored so far
Stores == IF call.op = "setMemoryCache" THEN call.stores ELSE 0

\* the keys of a set call: the next key never stored before, and the key of
\* the second and the last entry of the tier
StoreKeys ==
    { CacheKey(i) : i \in {Stores + 1} \cap (1..MaxCacheKeys) }
    \cup { memoryCache[i].key : i \in {2, Len(memoryCache)}
                                        \cap (1..Len(memoryCache)) }

\* setMemoryCache(key, data)
CallSetMemoryCache(key, data) ==
    /\ \E mem \in {setMemoryCache(memoryCache, key, data, now)} :
          /\ memoryCache' = mem
          /\ call' = [op |-> "setMemoryCache", key |-> key,
                      existed |-> key \in MemKeys(memoryCache),
                      size |-> Len(memoryCache),
                      firstKey |-> IF Len(memoryCache) > 0
                                   THEN memoryCache[1].key ELSE << >>,
                      stores |-> IF key = CacheKey(Stores + 1)
                                 THEN Stores + 1 ELSE Stores,
                      evicted |-> MemKeys(memoryCache) \ MemKeys(mem)]
    /\ UNCHANGED << now, diskCache, stored, keyMgr, sched, svc >>

NextMemory ==
    \E key \in StoreKeys : CallSetMemoryCache(key, "p1")

SpecMemory == InitCache /\ [][NextMemory]_vars

\* ------------------------------------------ routing, called directly
\* the API families of makeRequest: its useMatchAPI and useAccountAPI flags
\* (account: line 561, match: lines 847 and 956, platform: line 641)
Families ==
    { [name |-> "account", useMatchAPI |-> FALSE, useAccountAPI |-> TRUE],
      [name |-> "match", useMatchAPI |-> TRUE, useAccountAPI |-> FALSE],
      [name |-> "platform", useMatchAPI |-> FALSE, useAccountAPI |-> FALSE] }

\* the process is started with RIOT_API_REGION = env
Configure(env) ==
    /\ region' = Constructor(env).region
    /\ platform' = Constructor(env).platform
    /\ call' = NoCall
    /\ UNCHANGED << now, memoryCache, diskCache, picks, stored, keyLog, run,
                    apiKeys, currentKeyIndex, timers, sched >>

\* resolveRegionAndPlatform(userRegion, forAccountAPI, forMatchAPI)
CallResolveRegionAndPlatform(userRegion, forAccountAPI, forMatchAPI) ==
    /\ call' = [op |-> "resolveRegionAndPlatform", userRegion |-> userRegion,
                forAccountAPI |-> forAccountAPI, forMatchAPI |-> forMatchAPI,
                value |-> resolveRegionAndPlatform(region, platform, userRegion,
                                                   forAccountAPI, forMatchAPI)]
    /\ UNCHANGED << now, memoryCache, diskCache, picks, stored, keyLog, svc,
                    apiKeys, currentKeyIndex, timers, sched >>

\* processQueue builds the URL of a request of a family (lines 304-327)
CallBaseURL(family, userRegion) ==
    /\ call' = [op |-> "baseURL", family |-> family.name,
                userRegion |-> userRegion,
                resolved |-> resolveRegionAndPlatform(region, platform,
                                Or(userRegion, Null), FALSE, FALSE),
                host |-> BaseURLHost(region, platform, userRegion,
                                     family.useAccountAPI, family.useMatchAPI)]
    /\ UNCHANGED << now, memoryCache, diskCache, picks, stored, keyLog, svc,
                    apiKeys, currentKeyIndex, timers, sched >>

InitRoute ==
    /\ Init
    /\ now = minuteMs
    /\ minuteStats = << >>
    /\ Len(apiKeys) = 1
    /\ apiKeys[1].key # ""

NextRoute ==
    \/ \E env \in RoutingInputs : Configure(env)
    \/ \E userRegion \in RoutingInputs : \E fa, fm \in BOOLEAN :
          CallResolveRegionAndPlatform(userRegion, fa, fm)
    \/ \E family \in Families : \E userRegion \in RoutingInputs :
          CallBaseURL(family, userRegion)

SpecRoute == InitRoute /\ [][NextRoute]_vars

\* ------------------------------------------- accessors of RiotAPIService
\* String.prototype.trim on the parameters the accessors are called with
Trim(str) == IF str = " " THEN "" ELSE str

\* typeof v === 'string'
IsString(v) == v \notin {Null, Undefined}

\* the test of lines 533, 537, 622, 689, 828, 855 and 940:
\* !v || typeof v !== 'string' || v.trim().length === 0
Missing(v) == Falsy(v) \/ ~IsString(v) \/ Trim(v) = ""

\* String.prototype.split('#') on the Riot IDs the accessors are called with
Split(riotId) ==
    CASE riotId = "Ann#EUW" -> << "Ann", "EUW" >>
      [] riotId = "Ann" -> << "Ann" >>
      [] riotId = "Ann#EUW#x" -> << "Ann", "EUW", "x" >>
      [] riotId = "#EUW" -> << "", "EUW" >>
      [] riotId = "Ann# " -> << "Ann", " " >>

\* response bodies: an object with a puuid, an object without, an empty body
Bodies == {"withPuuid", "withoutPuuid", ""}

\* typeof body === 'object' of a truthy body
IsObject(body) == body \in {"withPuuid", "withoutPuuid", "p1", "merged"}

\* body.puuid
HasPuuid(body) == body \in {"withPuuid", "merged"}
Puuid(body) == "puuid1"

\* an Error: its message, error.status and error.response.status (0: not
\* set), and whether error.response.headers is set
Error(message, status, response, headers) ==
    [message |-> message, status |-> status, response |-> response,
     headers |-> headers]
NoErr == Error("none", 0, 0, FALSE)
TypeError == Error("TypeError", 0, 0, FALSE)
ValidationError == Error("validation", 0, 0, FALSE)

\* how the promise of makeRequest settles (lines 252-527): resolved with the
\* response body, or rejected with the error built at lines 405-410 and
\* 449-454 for a status below 500 (no headers), with the error of axios for a
\* status of 500 and above (response with headers), or with an error without
\* response for a timeout
Settlements ==
    { [ok |-> TRUE, body |-> b, error |-> NoErr] : b \in Bodies }
    \cup { [ok |-> FALSE, body |-> Null, error |-> Error("api", 0, st, FALSE)] :
              st \in {403, 404, 429} }
    \cup { [ok |-> FALSE, body |-> Null, error |-> Error("api", 0, 500, TRUE)],
           [ok |-> FALSE, body |-> Null, error |-> Error("timeout", 0, 0, FALSE)] }

\* what a segment of an accessor ends with: a return, a throw, or the await
\* of the promise of makeRequest for a request of an API family
Return(value) == [kind |-> "return", value |-> value, error |-> NoErr]
Throw(error) == [kind |-> "throw", value |-> Null, error |-> error]
Await(stage, key) ==
    [kind |-> "await", value |-> Null, error |-> NoErr, stage |-> stage,
     key |-> key]

\* the state an accessor works on, and the end of its segment
ASt == [mem |-> memoryCache, disk |-> diskCache, stats |-> minuteStats,
        wrote |-> FALSE, account |-> Null]
Seg(S, out) == [S |-> S, out |-> out]

\* this.makeRequest(...) (lines 236-250) as an accessor calls it
AwaitRequest(S, stage, key) ==
    IF Len(apiKeys) = 0 THEN Seg(S, Throw(Error("noKeys", 0, 0, FALSE)))
    ELSE Seg(S, Await(stage, key))

\* the cache lookup the accessors start with (lines 542-549, 627-634 and
\* 945-952); CacheService.get is called outside any try block
Lookup(S, stage, key, t) ==
    LET g == get(S.mem, S.disk, key, t)
        S1 == [S EXCEPT !.mem = g.mem, !.disk = g.disk]
    IN  IF g.threw THEN Seg(S1, Throw(TypeError))
        ELSE IF ~Falsy(g.value)
        THEN Seg([S1 EXCEPT !.stats = recordRequest(@, t, 200, TRUE)],
                 Return(g.value))
        ELSE AwaitRequest(S1, stage, key)

\* CacheService.set as the accessors call it
Store(S, key, body, t, writeOk) ==
    LET r == set(S.mem, S.disk, key, body, t, writeOk)
    IN  [S EXCEPT !.mem = r.mem, !.disk = r.disk, !.wrote = TRUE]

\* lines 593-615 and 673-682: the catch blocks of getAccountByRiotId and
\* getSummonerByPUUID
PreserveStatus(error) ==
    IF error.response # 0
    THEN Error(error.message, error.response, error.response, error.headers)
    ELSE error

\* lines 565-592 and 645-672: the checks of the response and the cache write
Validated(S, key, o, t, writeOk) ==
    IF ~o.ok THEN Seg(S, Throw(PreserveStatus(o.error)))
    ELSE IF Falsy(o.body) \/ ~IsObject(o.body)
    THEN Seg(S, Throw(Error("invalidResponse", 0, 0, FALSE)))
    ELSE IF ~HasPuuid(o.body)
    THEN Seg(S, Throw(Error("invalidResponse", 0, 0, FALSE)))
    ELSE Seg(Store(S, key, o.body, t, writeOk), Return(o.body))

\* getAccountByRiotId (lines 532-616) up to its await
AccountKey(gameName, tagLine, userRegion) ==
    generateKey("account", << Chars(ToLowerCase(gameName)),
                              Chars(ToLowerCase(tagLine)),
                              Chars(Or(userRegion, "default")) >>)

getAccountByRiotId(S, gameName, tagLine, userRegion, t) ==
    IF Missing(gameName) THEN Seg(S, Throw(ValidationError))
    ELSE IF Missing(tagLine) THEN Seg(S, Throw(ValidationError))
    ELSE Lookup(S, "account", AccountKey(gameName, tagLine, userRegion), t)

\* getSummonerByPUUID (lines 621-683) up to its await
SummonerKey(puuid, userRegion) ==
    generateKey("summoner", << Chars(puuid),
                               Chars(Or(userRegion, "default")) >>)

getSummonerByPUUID(S, puuid, userRegion, t) ==
    IF Missing(puuid) THEN Seg(S, Throw(ValidationError))
    ELSE Lookup(S, "summoner", SummonerKey(puuid, userRegion), t)

\* getMatchDetails (lines 939-964) up to its await
MatchKey(matchId, userRegion) ==
    generateKey("matchDetails", << Chars(matchId),
                                   Chars(Or(userRegion, "default")) >>)

getMatchDetails(S, matchId, userRegion, t) ==
    IF Missing(matchId) THEN Seg(S, Throw(ValidationError))
    ELSE Lookup(S, "matchDetails", MatchKey(matchId, userRegion), t)

\* lines 956-963: getMatchDetails after its await
MatchDetailsResume(S, key, o, t, writeOk) ==
    IF ~o.ok THEN Seg(S, Throw(o.error))
    ELSE Seg(Store(S, key, o.body, t, writeOk), Return(o.body))

\* getMatchHistory (lines 827-848)
getMatchHistory(S, puuid, start, count) ==
    IF Missing(puuid) THEN Seg(S, Throw(ValidationError))
    ELSE IF start < 0 \/ count < 0 \/ count > 100
    THEN Seg(S, Throw(ValidationError))
    ELSE AwaitRequest(S, "matchHistory", << >>)

\* lines 737-760: the catch block of getSummonerByRiotId
RiotIdCatch(error) ==
    IF error.response = 404 THEN Error("notFound", 404, 404, error.headers)
    ELSE IF error.response = 403 THEN Error("authFailure", 403, 403, error.headers)
    ELSE error

Caught(seg) ==
    IF seg.out.kind = "throw" THEN Seg(seg.S, Throw(RiotIdCatch(seg.out.error)))
    ELSE seg

\* lines 730-736: the merge of the summoner and the account
Merge(summoner, account) == "merged"

\* lines 728-736: getSummonerByRiotId from its second step on
SummonerStep(seg) ==
    IF seg.out.kind = "return"
    THEN Seg(seg.S, Return(Merge(seg.out.value, seg.S.account)))
    ELSE Caught(seg)

\* lines 718-728: getSummonerByRiotId once the account is known
AccountStep(seg, userRegion, t) ==
    IF seg.out.kind # "return" THEN Caught(seg)
    ELSE IF Falsy(seg.out.value) \/ ~HasPuuid(seg.out.value)
    THEN Seg(seg.S, Throw(RiotIdCatch(Error("noPuuid", 0, 0, FALSE))))
    ELSE SummonerStep(getSummonerByPUUID(
                          [seg.S EXCEPT !.account = seg.out.value],
                          Puuid(seg.out.value), userRegion, t))

\* a check of the Riot ID that accepts more than one '#'
getSummonerByRiotIdManyParts(S, riotId, userRegion, t) ==
    IF Missing(riotId) THEN Seg(S, Throw(ValidationError))
    ELSE IF Len(Split(riotId)) < 2 THEN Seg(S, Throw(ValidationError))
    ELSE IF Trim(Split(riotId)[1]) = "" \/ Trim(Split(riotId)[2]) = ""
    THEN Seg(S, Throw(ValidationError))
    ELSE AccountStep(getAccountByRiotId(S, Trim(Split(riotId)[1]),
                                        Trim(Split(riotId)[2]), userRegion, t),
                     userRegion, t)

\* getSummonerByRiotId (lines 688-761) up to its first await
getSummonerByRiotId(S, riotId, userRegion, t) ==
    IF Missing(riotId) THEN Seg(S, Throw(ValidationError))
    ELSE IF Len(Split(riotId)) # 2 THEN Seg(S, Throw(ValidationError))
    ELSE IF Trim(Split(riotId)[1]) = "" \/ Trim(Split(riotId)[2]) = ""
    THEN Seg(S, Throw(ValidationError))
    ELSE AccountStep(getAccountByRiotId(S, Trim(Split(riotId)[1]),
                                        Trim(Split(riotId)[2]), userRegion, t),
                     userRegion, t)

\* --------------------------------------------- accessors, called directly
Accessors ==
    {"getAccountByRiotId", "getSummonerByPUUID", "getSummonerByRiotId",
     "getMatchDetails", "getMatchHistory"}

\* the arguments the accessors are called with: the identifying strings,
\* and start and count of getMatchHistory
AccessorArgs(op) ==
    CASE op = "getAccountByRiotId" ->
           { [ids |-> << g, "EUW" >>, nums |-> << >>] : g \in {"Ann", " ", Null} }
           \cup { [ids |-> << "Ann", tl >>, nums |-> << >>] : tl \in {"", Null} }
      [] op = "getSummonerByPUUID" ->
           { [ids |-> << pu >>, nums |-> << >>] : pu \in {"puuid1", "", Null} }
      [] op = "getSummonerByRiotId" ->
           { [ids |-> << id >>, nums |-> << >>] :
                id \in {"Ann#EUW", "Ann", "Ann#EUW#x", "#EUW", "Ann# ", "", Null} }
      [] op = "getMatchDetails" ->
           { [ids |-> << m >>, nums |-> << >>] : m \in {"m1", " ", Null} }
      [] op = "getMatchHistory" ->
           { [ids |-> << pu >>, nums |-> << 0, 100 >>] : pu \in {"puuid1", Null} }
           \cup { [ids |-> << "puuid1" >>, nums |-> << st, 100 >>] : st \in {100, -1} }
           \cup { [ids |-> << "puuid1" >>, nums |-> << 0, 101 >>] }

\* the region option of a command
AccessHints == {Null, "sea"}

\* the first segment of an accessor
StartSegment(op, args, userRegion) ==
    CASE op = "getAccountByRiotId" ->
           getAccountByRiotId(ASt, args.ids[1], args.ids[2], userRegion, now)
      [] op = "getSummonerByPUUID" ->
           getSummonerByPUUID(ASt, args.ids[1], userRegion, now)
      [] op = "getSummonerByRiotId" ->
           getSummonerByRiotId(ASt, args.ids[1], userRegion, now)
      [] op = "getMatchDetails" ->
           getMatchDetails(ASt, args.ids[1], userRegion, now)
      [] op = "getMatchHistory" ->
           getMatchHistory(ASt, args.ids[1], args.nums[1], args.nums[2])

\* the segment of an accessor after the promise it awaited has settled
ResumeWith(S, op, stage, key, userRegion, o, t, writeOk) ==
    LET whole == op = "getSummonerByRiotId"
    IN  CASE stage = "account" ->
               IF whole
               THEN AccountStep(Validated(S, key, o, t, writeOk), userRegion, t)
               ELSE Validated(S, key, o, t, writeOk)
          [] stage = "summoner" ->
               IF whole
               THEN SummonerStep(Validated(S, key, o, t, writeOk))
               ELSE Validated(S, key, o, t, writeOk)
          [] stage = "matchDetails" ->
               MatchDetailsResume(S, key, o, t, writeOk)
          [] stage = "matchHistory" ->
               IF o.ok THEN Seg(S, Return(o.body)) ELSE Seg(S, Throw(o.error))

ResumeSegment(o, writeOk) ==
    ResumeWith([ASt EXCEPT !.wrote = run.wrote, !.account = run.account],
               run.op, run.stage, run.key, run.userRegion, o, now, writeOk)

\* an accessor awaited to its end by its caller: up holds how the scheduler
\* settles its first and its second request; enqueued counts the requests
\* it has made
Settled(seg, op, userRegion, o, t) ==
    IF seg.out.kind # "await" THEN seg
    ELSE ResumeWith(seg.S, op, seg.out.stage, seg.out.key, userRegion, o, t, TRUE)

Complete(seg, op, userRegion, up, t) ==
    IF seg.out.kind # "await" THEN [seg |-> seg, enqueued |-> 0]
    ELSE CHOOSE c \in
           { IF first.out.kind # "await" THEN [seg |-> first, enqueued |-> 1]
             ELSE [seg |-> Settled(first, op, userRegion, up[2], t),
                   enqueued |-> 2] :
               first \in {Settled(seg, op, userRegion, up[1], t)} } : TRUE

\* what the upstream holds for a call: how the scheduler settles the first
\* and the second request of the call
Upstreams(op) ==
    IF op = "getSummonerByRiotId"
    THEN { << o1, o2 >> \in Settlements \X Settlements :
              o1.body # "withPuuid" => o2 = o1 }
    ELSE { << o, o >> : o \in Settlements }

\* the key of the cache entry of a call, and what set stored under it
CallKey(op, args, userRegion) ==
    CASE op = "getAccountByRiotId" ->
           AccountKey(args.ids[1], args.ids[2], userRegion)
      [] op = "getSummonerByPUUID" -> SummonerKey(args.ids[1], userRegion)
      [] op = "getMatchDetails" -> MatchKey(args.ids[1], userRegion)

StoredAt(key) ==
    IF MemIndex(memoryCache, key) # 0
    THEN memoryCache[MemIndex(memoryCache, key)].data
    ELSE IF key \in DOMAIN diskCache /\ ~ParseThrows(diskCache[key])
            /\ Parse(diskCache[key]).data # Undefined
    THEN Parse(diskCache[key]).data
    ELSE Null

\* for getSummonerByRiotId: what is stored for its account and its summoner
Cached(op, args, userRegion) ==
    IF /\ op \in {"getAccountByRiotId", "getSummonerByPUUID", "getMatchDetails"}
       /\ \A i \in DOMAIN args.ids : ~Missing(args.ids[i])
    THEN StoredAt(CallKey(op, args, userRegion))
    ELSE IF op = "getSummonerByRiotId" /\ args.ids[1] = "Ann#EUW"
    THEN << StoredAt(AccountKey("Ann", "EUW", userRegion)),
            StoredAt(SummonerKey("puuid1", userRegion)) >>
    ELSE Null

\* the state after a segment: the accessor awaits again, or it has ended
\* and the record of the call is complete
EndSegment(seg, op, args, userRegion, up, enqueued, cached) ==
    /\ memoryCache' = seg.S.mem
    /\ diskCache' = seg.S.disk
    /\ minuteStats' = seg.S.stats
    /\ IF seg.out.kind = "await"
       THEN /\ run' = [pc |-> "awaiting", op |-> op, args |-> args,
                       userRegion |-> userRegion, stage |-> seg.out.stage,
                       key |-> seg.out.key, account |-> seg.S.account,
                       wrote |-> seg.S.wrote, enqueued |-> enqueued + 1,
                       up |-> up, cached |-> cached]
            /\ call' = NoCall
       ELSE /\ run' = NoRun
            /\ call' = [op |-> op, args |-> args, userRegion |-> userRegion,
                        kind |-> seg.out.kind, value |-> seg.out.value,
                        error |-> seg.out.error, enqueued |-> enqueued,
                        up |-> up, cached |-> cached,
                        wrote |-> seg.S.wrote,
                        changed |-> << seg.S.mem, seg.S.disk >>
                                       # << memoryCache, diskCache >>]
    /\ UNCHANGED << now, nextCleanup, requestQueue, isProcessing,
                    requestTimestamps, lastRequestTime, loops, nextId,
                    promises, hist, dispatched, order, minuteCalls, apiKeys,
                    currentKeyIndex, timers, picks, stored, keyLog, region,
                    platform >>

\* a caller invokes an accessor
CallAccessor(op, args, userRegion, up) ==
    /\ run.pc = "idle"
    /\ EndSegment(StartSegment(op, args, userRegion), op, args, userRegion, up,
                  0, Cached(op, args, userRegion))

\* the scheduler settles the promise the accessor awaits (lines 252-527)
SchedulerSettles(writeOk) ==
    /\ run.pc = "awaiting"
    /\ EndSegment(ResumeSegment(run.up[run.enqueued], writeOk), run.op,
                  run.args, run.userRegion, run.up, run.enqueued, run.cached)

\* set(key, data) of the key of an accessor
SeedCache(u, data) ==
    /\ run.pc = "idle"
    /\ CallSet(u, data, TRUE)

InitAccess ==
    /\ Init
    /\ now = minuteMs
    /\ minuteStats = << >>
    /\ Len(apiKeys) = 1
    /\ apiKeys[1].key # ""

NextAccess ==
    \/ \E op \in Accessors : \E args \in AccessorArgs(op) :
          \E userRegion \in AccessHints : \E up \in Upstreams(op) :
             CallAccessor(op, args, userRegion, up)
    \/ \E writeOk \in BOOLEAN : SchedulerSettles(writeOk)
    \/ \E u \in CacheUsers : SeedCache(u, "withPuuid")
    \/ Restart

SpecAccess == InitAccess /\ [][NextAccess]_vars

\* ------------------------------------------------- the season aggregation
\* RiotAPIService.js lines 861 and 864, lolstats.js line 412
batchSize == 100
maxEmptyBatches == 2
maxMatchesOutsideSeason == 50

\* moment.utc(`${year}-01-01 00:00:00`).valueOf(), in seconds: the code
\* compares milliseconds, the bounds of the season fall on whole seconds
UtcSeconds(year) ==
    CASE year = 2025 -> 1735689600
      [] year = 2026 -> 1767225600

\* getCurrentSeason (YearEndRewindCalculator.js lines 11-38); year is
\* moment().year() when the command runs
getCurrentSeason(year) ==
    [season |-> year, seasonStart |-> UtcSeconds(year),
     seasonEnd |-> UtcSeconds(year + 1) - 1]

\* calculateWinRate (YearEndRewindCalculator.js lines 41-45)
calculateWinRate(matches) ==
    IF Len(matches) = 0 THEN 0
    ELSE LET wins == Cardinality({ i \in 1..Len(matches) : matches[i].win })
         IN  (200 * wins + Len(matches)) \div (2 * Len(matches))

\* the statistics of the reply (lolstats.js lines 557-561)
Summary(matches) ==
    [totalGames |-> Len(matches), winRate |-> calculateWinRate(matches)]
NoStats == [totalGames |-> 0, winRate |-> 0]

\* the match records of the upstream: a match after the season, at its last
\* second, within it, at its first second, before it; a body without info,
\* without gameCreation, without the player, without the player's championId;
\* a match whose details the upstream answers with status 404
MatchKinds ==
    {"post", "end", "in", "start", "pre", "noInfo", "noCreation",
     "noParticipant", "noChampion", "gone"}

\* lolstats.js line 424: matchDetails, its info and its participants
HasInfo(d) == ~Falsy(d) /\ d # "noInfo"

\* lolstats.js line 431: matchDetails.info.gameCreation || 0
gameCreation(d, season) ==
    CASE d = "post" -> season.seasonEnd + 1
      [] d = "end" -> season.seasonEnd
      [] d = "start" -> season.seasonStart
      [] d = "pre" -> season.seasonStart - 1
      [] d = "noCreation" -> 0
      [] OTHER -> season.seasonStart + 1

\* lolstats.js lines 476-488: the participant of the player and its championId
HasParticipant(d) == d # "noParticipant"
HasChampionId(d) == d # "noChampion"
Win(d) == d \in {"in", "start"}

\* the match IDs of a player, newest first, are m1, m2, ...
MatchId(i) == "m" \o ToString(i)
Repeat(d, n) == [i \in 1..n |-> d]

\* the histories of the players the command is run for
SeasonHistories ==
    { << >>,
      Repeat("pre", maxMatchesOutsideSeason + 1),
      Repeat("pre", maxMatchesOutsideSeason - 1) \o << "in" >>,
      << "post", "end", "in", "start", "noInfo", "noCreation",
         "noParticipant", "noChampion", "gone", "pre" >> }

\* the histories getAllMatchHistoryForYear is called on
PageHistories ==
    { Repeat("in", n) : n \in {0, 1, batchSize, batchSize + 1} }

Years == {2025}

\* the page of IDs the upstream holds at an offset
Page(h, start, count) ==
    [i \in 1..(IF Len(h) - start > count THEN count
               ELSE IF Len(h) > start THEN Len(h) - start ELSE 0) |->
        MatchId(start + i)]

\* how the scheduler settles a request of a page: with the page, with an
\* empty page although the upstream holds one, with a body that is no array,
\* or rejected (lines 405-410, 449-454 and 478-512)
PageOutcomes(h, start) ==
    { [ok |-> TRUE, body |-> [array |-> TRUE, ids |-> Page(h, start, batchSize)],
       error |-> NoErr],
      [ok |-> TRUE, body |-> [array |-> TRUE, ids |-> << >>], error |-> NoErr],
      [ok |-> TRUE, body |-> [array |-> FALSE, ids |-> << >>], error |-> NoErr],
      [ok |-> FALSE, body |-> Null, error |-> Error("api", 0, 429, FALSE)],
      [ok |-> FALSE, body |-> Null, error |-> Error("api", 0, 403, FALSE)],
      [ok |-> FALSE, body |-> Null, error |-> Error("api", 0, 500, TRUE)] }

\* how the scheduler settles the request of the details of a match
DetailOutcomes(h, matchId) ==
    LET d == h[CHOOSE i \in 1..Len(h) : MatchId(i) = matchId]
    IN  IF d = "gone"
        THEN { [ok |-> FALSE, body |-> Null,
                error |-> Error("api", 0, 404, FALSE)] }
        ELSE { [ok |-> TRUE, body |-> d, error |-> NoErr] }

\* the locals of getAllMatchHistoryForYear (lines 859-864) and of the loop
\* of execute (lolstats.js lines 409-412); entry is the line the run starts at
NoPrev == [reply |-> "none", stats |-> NoStats, requests |-> 0]
SeasonRun(op, entry, puuid, userRegion, h, year, prev, requests) ==
    [pc |-> "listing", op |-> op, entry |-> entry, puuid |-> puuid, userRegion |-> userRegion,
     h |-> h, season |-> getCurrentSeason(year), start |-> 0,
     allMatchIds |-> << >>, consecutiveEmptyBatches |-> 0, hasMore |-> TRUE,
     thrown |-> NoErr, pages |-> << >>, requests |-> requests, index |-> 1,
     matches |-> << >>, processedCount |-> 0, matchesOutsideSeason |-> 0,
     broke |-> FALSE, examined |-> << >>, prev |-> prev]

\* RiotAPIService.js lines 869-931: one pass of the while loop; res is how
\* the call of getMatchHistory ended
PageIteration(L, res) ==
    IF res.kind = "return"
    THEN IF ~res.value.array \/ Len(res.value.ids) = 0
         THEN IF L.consecutiveEmptyBatches + 1 >= maxEmptyBatches
              THEN [L EXCEPT !.consecutiveEmptyBatches = @ + 1,
                             !.hasMore = FALSE]
              ELSE [L EXCEPT !.consecutiveEmptyBatches = @ + 1,
                             !.start = @ + batchSize]
         ELSE [L EXCEPT !.consecutiveEmptyBatches = 0,
                        !.allMatchIds = @ \o res.value.ids,
                        !.start = @ + batchSize]
    ELSE IF res.error.response = 429
    THEN IF ~res.error.headers
         THEN [L EXCEPT !.hasMore = FALSE, !.thrown = TypeError]
         ELSE L
    ELSE IF L.consecutiveEmptyBatches + 1 >= maxEmptyBatches
    THEN [L EXCEPT !.start = @ + batchSize,
                   !.consecutiveEmptyBatches = @ + 1, !.hasMore = FALSE]
    ELSE [L EXCEPT !.start = @ + batchSize,
                   !.consecutiveEmptyBatches = @ + 1]

\* a loop that a failed fetch of the details of a match ends
MatchIterationAborts(R, matchId, res) ==
    IF res.kind = "throw" THEN [R EXCEPT !.broke = TRUE]
    ELSE R

\* lolstats.js lines 420-527: one pass of the for loop; res is how the call
\* of getMatchDetails ended
MatchIteration(R, matchId, res) ==
    IF res.kind = "throw" THEN [R EXCEPT !.processedCount = @ + 1]
    ELSE LET d == res.value
             created == gameCreation(d, R.season)
         IN  IF ~HasInfo(d) THEN R
             ELSE IF created = 0 THEN R
             ELSE IF ~(created >= R.season.seasonStart
                       /\ created <= R.season.seasonEnd)
             THEN IF created < R.season.seasonStart
                  THEN IF R.matchesOutsideSeason + 1 >= maxMatchesOutsideSeason
                       THEN [R EXCEPT !.matchesOutsideSeason = @ + 1,
                                      !.broke = TRUE]
                       ELSE [R EXCEPT !.matchesOutsideSeason = @ + 1]
                  ELSE [R EXCEPT !.matchesOutsideSeason = 0]
             ELSE IF ~HasParticipant(d) \/ ~HasChampionId(d)
             THEN [R EXCEPT !.matchesOutsideSeason = 0]
             ELSE [R EXCEPT !.matchesOutsideSeason = 0,
                            !.matches = Append(@, [matchId |-> matchId,
                                                   gameCreation |-> created,
                                                   win |-> Win(d)]),
                            !.processedCount = @ + 1]

\* the end of a run: the value or the error of getAllMatchHistoryForYear, or
\* the reply of the command
SeasonCall(R, reply, error) ==
    [op |-> R.op, entry |-> R.entry, h |-> R.h, puuid |-> R.puuid, reply |-> reply,
     error |-> error, value |-> R.allMatchIds, pages |-> R.pages,
     requests |-> R.requests, season |-> R.season, matches |-> R.matches,
     stats |-> Summary(R.matches), examined |-> R.examined, prev |-> R.prev]

\* lolstats.js lines 377-387 and 625-680 of execute, and the return of
\* getAllMatchHistoryForYear (lines 933-934): the listing has ended
AfterListing(R) ==
    IF R.thrown # NoErr
    THEN /\ run' = NoRun
         /\ call' = SeasonCall(R, IF R.op = "execute" THEN "error" ELSE "throw",
                               R.thrown)
    ELSE IF R.op = "getAllMatchHistoryForYear"
    THEN /\ run' = NoRun
         /\ call' = SeasonCall(R, "return", NoErr)
    ELSE IF Len(R.allMatchIds) = 0
    THEN /\ run' = NoRun
         /\ call' = SeasonCall(R, "noMatches", NoErr)
    ELSE /\ run' = [R EXCEPT !.pc = "details"]
         /\ call' = NoCall

\* lolstats.js lines 530-624: the loop has ended, the command replies
AfterDetails(R) ==
    /\ run' = NoRun
    /\ call' = SeasonCall(R, IF Len(R.matches) = 0 THEN "noMatches" ELSE "stats",
                          NoErr)

\* what a run starts from: the reply of the run before it, when that run was
\* for the same player
Prev(op, entry, h) ==
    IF call.op = op /\ call.entry = entry /\ call.h = h
    THEN [reply |-> call.reply, stats |-> call.stats, requests |-> call.requests]
    ELSE NoPrev

\* ---------------------------------------- the season aggregation, run
\* the state a run of the aggregation leaves alone
beside ==
    << now, nextCleanup, requestQueue, isProcessing, requestTimestamps,
       lastRequestTime, loops, nextId, promises, hist, dispatched, order,
       minuteCalls, apiKeys, currentKeyIndex, timers, picks, stored, keyLog,
       region, platform >>

\* /lolstats for the Riot ID Ann#EUW (lolstats.js lines 249-376): the lookup
\* of the summoner, awaited to its end
CallExecute(h, year, up) ==
    /\ run.pc = "idle"
    /\ \E seg \in {getSummonerByRiotId(ASt, "Ann#EUW", Null, now)} :
       \E c \in {Complete(seg, "getSummonerByRiotId", Null, up, now)} :
       LET out == c.seg.out
           R == SeasonRun("execute", 249,
                          IF out.kind = "return" THEN Puuid(out.value) ELSE Null,
                          Null, h, year, Prev("execute", 249, h), c.enqueued)
       IN  /\ memoryCache' = c.seg.S.mem
           /\ diskCache' = c.seg.S.disk
           /\ minuteStats' = c.seg.S.stats
           /\ IF out.kind = "throw"
              THEN run' = NoRun /\ call' = SeasonCall(R, "error", out.error)
              ELSE IF Falsy(out.value) \/ ~HasPuuid(out.value)
              THEN /\ run' = NoRun
                   /\ call' = SeasonCall(R, "error",
                                         Error("invalidResponse", 0, 0, FALSE))
              ELSE run' = R /\ call' = NoCall
    /\ UNCHANGED beside

\* execute from line 377 on, for a summoner whose lookup has succeeded
CallAggregation(h, year) ==
    /\ run.pc = "idle"
    /\ run' = SeasonRun("execute", 377, "puuid1", Null, h, year,
                        Prev("execute", 377, h), 0)
    /\ call' = NoCall
    /\ UNCHANGED << memoryCache, diskCache, minuteStats, beside >>

\* a caller invokes getAllMatchHistoryForYear (lines 854-865)
CallGetAllMatchHistoryForYear(puuid, h, year) ==
    /\ run.pc = "idle"
    /\ LET R == SeasonRun("getAllMatchHistoryForYear", 854, puuid, Null, h,
                          year, Prev("getAllMatchHistoryForYear", 854, h), 0)
       IN  IF Missing(puuid)
           THEN run' = NoRun /\ call' = SeasonCall(R, "throw", ValidationError)
           ELSE run' = R /\ call' = NoCall
    /\ UNCHANGED << memoryCache, diskCache, minuteStats, beside >>

\* one pass of the while loop of getAllMatchHistoryForYear: the request of
\* getMatchHistory is settled with o
PageSettles(o) ==
    /\ run.pc = "listing"
    /\ \E seg \in {getMatchHistory(ASt, run.puuid, run.start, batchSize)} :
       \E c \in {Complete(seg, "getMatchHistory", run.userRegion, << o >>, now)} :
       \E L \in {PageIteration(run, c.seg.out)} :
       LET R == [L EXCEPT !.requests = @ + c.enqueued,
                          !.pages = Append(@, [start |-> run.start,
                                               count |-> batchSize,
                                               ok |-> o.ok,
                                               status |-> IF o.ok THEN 200
                                                          ELSE o.error.response,
                                               ids |-> IF o.ok THEN o.body.ids
                                                       ELSE << >>])]
       IN  IF R.hasMore THEN run' = R /\ call' = NoCall
           ELSE AfterListing(R)
    /\ UNCHANGED << memoryCache, diskCache, minuteStats, beside >>

\* one pass of the for loop of execute: getMatchDetails is awaited to its
\* end, its request, if it makes one, is settled with o
ExamineMatch(o) ==
    /\ run.pc = "details"
    /\ \E matchId \in {run.allMatchIds[run.index]} :
       \E seg \in {getMatchDetails(ASt, matchId, run.userRegion, now)} :
       \E c \in {Complete(seg, "getMatchDetails", run.userRegion, << o >>, now)} :
       \E M \in {MatchIteration(run, matchId, c.seg.out)} :
       LET R == [M EXCEPT !.requests = @ + c.enqueued,
                          !.examined = Append(@, matchId),
                          !.index = @ + 1]
       IN  /\ memoryCache' = c.seg.S.mem
           /\ diskCache' = c.seg.S.disk
           /\ minuteStats' = c.seg.S.stats
           /\ IF R.broke \/ R.index > Len(R.allMatchIds)
              THEN AfterDetails(R)
              ELSE run' = R /\ call' = NoCall
    /\ UNCHANGED beside

InitSeason == InitAccess

NextSeason ==
    \/ \E h \in SeasonHistories : \E year \in Years :
          \E up \in Upstreams("getSummonerByRiotId") : CallExecute(h, year, up)
    \/ \E h \in SeasonHistories : \E year \in Years : CallAggregation(h, year)
    \/ \E puuid \in {"puuid1", Null} : \E h \in PageHistories :
          \E year \in Years : CallGetAllMatchHistoryForYear(puuid, h, year)
    \/ /\ run.pc = "listing"
       /\ \E o \in PageOutcomes(run.h, run.start) : PageSettles(o)
    \/ /\ run.pc = "details"
       /\ \E o \in DetailOutcomes(run.h, run.allMatchIds[run.index]) :
             ExamineMatch(o)

SpecSeason == InitSeason /\ [][NextSeason]_vars

\* ---------------------------------------------------------------- claims
\* the status the scheduler reads from a reply that did not throw
ReplyStatus(reply) == IF reply.code # 0 THEN reply.code ELSE reply.http

Running == { a \in Activations : loops[a].pc # "none" }

InFlight == { a \in Activations : loops[a].pc = "inflight" }

\* C1: at every moment at most one upstream call is in flight and at most one
\* drain loop is active, however many callers invoke makeRequest; a
\* makeRequest that arrives while a loop runs starts no second loop.
C1_SingleDrain ==
    /\ Cardinality(InFlight) <= 1
    /\ Cardinality(Running) <= 1
    /\ (Running # {}) => isProcessing

\* a second makeRequest arrived while the first request's call was in flight
C1_Witness ==
    /\ Len(loops) >= 2
    /\ loops[1].pc = "inflight"
    /\ loops[2].pc = "none"
    /\ requestQueue = << 2 >>

\* C3: requests are served in FIFO order: the first upstream calls of the
\* requests leave in the order in which makeRequest enqueued them (request
\* ids count the makeRequest calls).
C3_Fifo ==
    \A i, j \in 1..Len(order) : i < j => order[i] < order[j]

\* two requests have had their first upstream call
C3_Witness == Len(order) >= 2 /\ hist.req = 2 /\ hist.calls >= 1

\* the requests whose promise exists
Requests == 1..Len(promises)

InQueue(r) == \E i \in 1..Len(requestQueue) : requestQueue[i] = r

\* request r has left the queue and its upstream call is awaited
InService(r) == \E a \in InFlight : loops[a].req = r

\* a pending request is in the queue once, or in service, never both
Held(r) ==
    /\ InQueue(r) \/ InService(r)
    /\ ~(InQueue(r) /\ InService(r))
    /\ Cardinality({ i \in 1..Len(requestQueue) : requestQueue[i] = r }) <= 1

\* C2: every request makeRequest enqueues is eventually settled, given that
\* upstream calls return or time out and the clock moves on; no request
\* leaves the queue without being settled, and a settled promise keeps the
\* outcome it was first given.
C2_EventuallySettled ==
    /\ \A r \in 1..MaxRequests :
          (r \in Requests /\ promises[r] = "pending")
              ~> (r \in Requests /\ promises[r] = "settled")
    /\ [](\A r \in Requests : promises[r] = "pending" => Held(r))
    /\ [][\A r \in Requests :
            /\ promises[r] = "settled" => promises'[r] = "settled"
            /\ (hist.req = r /\ hist'.req = r /\ hist.outcome # "pending")
                  => /\ hist'.outcome = hist.outcome
                     /\ hist'.error = hist.error
                     /\ hist'.value = hist.value]_vars

\* every request was enqueued and settled, the last one resolved on its
\* second credential, and the loop has ended
C2_Witness ==
    /\ Len(promises) = MaxRequests
    /\ \A r \in Requests : promises[r] = "settled"
    /\ requestQueue = << >>
    /\ ~isProcessing
    /\ Running = {}
    /\ hist.calls = 2
    /\ hist.outcome = "resolved"

\* a reply after which the specification has the scheduler retry: it threw
\* (timeout, no network, 5xx), or it is a 429, or it is a 401 while another
\* credential may still be tried
Transient(reply) == Throws(reply)

RateLimited(reply) == ~Throws(reply) /\ ReplyStatus(reply) = 429

Unauthorized(reply) == ~Throws(reply) /\ ReplyStatus(reply) = 401

CountRateLimited(resps) ==
    Cardinality({ i \in 1..Len(resps) : RateLimited(resps[i]) })

CountTransient(resps) ==
    Cardinality({ i \in 1..Len(resps) : Transient(resps[i]) })

\* C4: with A enqueued before B, when A's first attempt fails with a
\* retryable outcome, A is retried and has reached its final resolution
\* before the first upstream call for B leaves.
C4_RetriedBeforeNext ==
    [][(/\ Len(order') > Len(order)
        /\ hist.req # 0
        /\ Len(hist.resps) >= 1
        /\ \/ Transient(hist.resps[1])
           \/ RateLimited(hist.resps[1])
           \/ Unauthorized(hist.resps[1]) /\ Len(apiKeys) >= 2)
       => (hist.outcome # "pending" /\ Len(hist.resps) >= 2)]_vars

\* C5: a request is rejected as rate-limited only after the 429 was retried:
\* at least two and at most four of its calls returned 429.
C5_RateLimitRetried ==
    (hist.outcome = "rejected" /\ hist.error.status = 429)
        => (CountRateLimited(hist.resps) >= 2
            /\ CountRateLimited(hist.resps) <= 4)

\* C6: a request is rejected for a timeout, a network failure or a 5xx only
\* after that failure was retried: at least two and at most four of its calls
\* failed that way.
C6_TransientRetried ==
    (hist.outcome = "rejected" /\ hist.error.status \in {0} \cup (500..599))
        => (CountTransient(hist.resps) >= 2
            /\ CountTransient(hist.resps) <= 4)

\* the step handles a reply of the request in service
Handles(a) ==
    /\ loops[a].pc = "inflight"
    /\ hist'.req = hist.req
    /\ hist'.resps = Append(hist.resps, loops[a].reply)

\* C7: a 401 is recorded against the credential used; unless it was the last
\* permitted attempt the same request is tried again at once with the next
\* credential of the rotator, without going back to the queue; a request
\* causes at most min(number of credentials, 3) calls, and a 401 on the last
\* permitted attempt rejects it with status 401.
C7_KeyRetry ==
    [][/\ hist'.calls <= Min2(Len(apiKeys'), 3)
       /\ \A a \in Activations :
            (Handles(a) /\ Unauthorized(loops[a].reply)) =>
               /\ apiKeys'[loops[a].apiKeyId].errorCount
                      = apiKeys[loops[a].apiKeyId].errorCount + 1
               /\ requestQueue' = requestQueue
               /\ IF hist.calls < Min2(Len(apiKeys), 3)
                  THEN /\ hist'.calls = hist.calls + 1
                       /\ hist'.outcome = "pending"
                       /\ loops'[a].pc = "inflight"
                       /\ loops'[a].req = loops[a].req
                       /\ currentKeyIndex' = currentKeyIndex + 1
                       /\ loops'[a].keysTried[hist'.calls] = loops'[a].apiKeyId
                  ELSE /\ hist'.calls = hist.calls
                       /\ hist'.outcome = "rejected"
                       /\ hist'.error.status = 401]_vars

\* with four credentials, three calls of one request returned 401 and the
\* request was rejected with status 401
C7_Witness ==
    /\ Len(apiKeys) = 4
    /\ hist.calls = 3
    /\ Len(hist.resps) = 3
    /\ \A i \in 1..3 : Unauthorized(hist.resps[i])
    /\ hist.outcome = "rejected"
    /\ hist.error.status = 401

\* a 4xx status other than 401 and 429
Other4xx(reply) ==
    /\ ~Throws(reply)
    /\ ReplyStatus(reply) \in (400..499) \ {401, 429}

\* C8: a reply with a 4xx status other than 401 and 429, in the HTTP status
\* or in a status object of the body, ends the request: it is rejected with
\* that status and the response body and no further call is made for it; when
\* it answers the request's first call, the request had exactly one call.
C8_TerminalClientError ==
    \A n \in 1..Len(hist.resps) :
        Other4xx(hist.resps[n]) =>
            /\ n = Len(hist.resps)
            /\ hist.calls = n
            /\ hist.outcome = "rejected"
            /\ hist.error = Err(ReplyStatus(hist.resps[n]), hist.resps[n])
            /\ \A i \in 1..(n - 1) : Unauthorized(hist.resps[i])

\* the first call of a request was answered 404 in a status object and the
\* request was rejected after that one call
C8_Witness ==
    /\ hist.resps = << [http |-> 404, code |-> 404] >>
    /\ hist.calls = 1
    /\ hist.outcome = "rejected"
    /\ hist.error.status = 404

\* q is an initial part of p
IsPrefix(q, p) == Len(q) <= Len(p) /\ \A i \in 1..Len(q) : q[i] = p[i]

\* C9: a denial of canMakeRequest puts the loop to sleep for retryAfter
\* seconds; while it sleeps no request leaves the queue and no upstream call
\* is made; it leaves the sleep only when the time is up, to check again; it
\* goes on to throttleRequest only after a check that allowed.
C9_HeadOfLine ==
    [][\A a \in 1..Len(loops') :
         /\ (a \in Activations /\ loops[a].pc = "admitSleep") =>
               /\ IsPrefix(requestQueue, requestQueue')
               /\ hist' = hist
               /\ order' = order
               /\ loops'[a].pc \in {"admitSleep", "throttleWait1",
                                    "throttleWait2", "throttled"}
               /\ (loops'[a] # loops[a]) => now >= loops[a].wakeAt
         /\ loops'[a].pc = "admitSleep" =>
               /\ ~loops'[a].rateLimitCheck.allowed
               /\ (a \notin Activations \/ loops'[a] # loops[a]) =>
                     /\ loops'[a].rateLimitCheck = canMakeRequest(minuteStats', now')
                     /\ loops'[a].wakeAt =
                           now' + loops'[a].rateLimitCheck.retryAfter * 1000
         /\ loops'[a].pc \in {"throttleWait1", "throttleWait2", "throttled"} =>
               loops'[a].rateLimitCheck.allowed]_vars

\* the loop sleeps on a denial that followed an upstream call, with two
\* requests waiting in the queue
C9_Witness ==
    \E a \in Activations :
        /\ loops[a].pc = "admitSleep"
        /\ Len(requestQueue) >= 1
        /\ Len(order) >= 1
        /\ MinuteRequests(minuteStats, now) >= requestsPerMinute

\* C10: no 1-second window holds more upstream calls than the per-second
\* ceiling, the calls of credential retries included.
C10_PerSecondCeiling ==
    Cardinality({ i \in 1..Len(dispatched) :
                    dispatched[i] > now - rateLimitWindow })
        <= maxRequestsPerWindow

\* C11: the upstream calls dispatched while one minute bucket is current
\* never number more than the per-minute ceiling
C11_PerMinuteCeiling == minuteCalls.calls <= requestsPerMinute

\* C12: canMakeRequest denies exactly when the current minute bucket holds
\* the per-minute ceiling or more, and then returns the whole seconds left
\* until the minute rolls over, a number from 1 to 60; otherwise it allows.
\* The loop keeps the result in rateLimitCheck: a loop asleep after a denial
\* holds a denial made at a time when the bucket was full, a loop in
\* throttleRequest holds an admission made when the bucket was not full.
C12_AdmissionCheck ==
    \A a \in Activations :
        LET l == loops[a]
            chk == l.rateLimitCheck
            t0 == l.wakeAt - chk.retryAfter * 1000
            left == minuteMs - (t0 % minuteMs)
        IN  /\ l.pc = "admitSleep" =>
                  /\ ~chk.allowed
                  /\ t0 <= now
                  /\ MinuteRequests(minuteStats, t0) >= requestsPerMinute
                  /\ chk.retryAfter \in 1..60
                  /\ (chk.retryAfter - 1) * 1000 < left
                  /\ left <= chk.retryAfter * 1000
            /\ l.pc \in {"throttleWait1", "throttleWait2", "throttled"} =>
                  /\ chk.allowed
                  /\ MinuteRequests(minuteStats, l.now0) < requestsPerMinute

C12_Witness ==
    \E a \in Activations :
        /\ loops[a].pc = "admitSleep"
        /\ loops[a].rateLimitCheck.retryAfter = 1
        /\ loops[a].wakeAt % 1000 # 0
        /\ MinuteRequests(minuteStats, now) = requestsPerMinute

\* every configured credential, in array order
AllKeys == [i \in 1..Len(apiKeys) |-> i]

\* C13: while every credential is enabled, any k*n consecutive calls of
\* getNextAPIKey return each of the k credentials exactly n times, each call
\* returning the cyclic successor of the credential returned before
C13_RoundRobin ==
    /\ \A i, j \in 1..Len(picks) :
          (/\ i <= j
           /\ \A m \in i..j : picks[m].list = AllKeys
           /\ (j - i + 1) % Len(apiKeys) = 0)
          => \A c \in 1..Len(apiKeys) :
                Cardinality({ m \in i..j : picks[m].k = c })
                    = (j - i + 1) \div Len(apiKeys)
    /\ \A m \in 1..(Len(picks) - 1) :
          (picks[m].list = AllKeys /\ picks[m + 1].list = AllKeys)
          => picks[m + 1].k = (picks[m].k % Len(apiKeys)) + 1

C13_Witness ==
    /\ Len(apiKeys) = 2
    /\ Len(picks) = 4
    /\ \A m \in 1..4 : picks[m].list = AllKeys
    /\ apiKeys[1].errorCount > 0

\* C14: getNextAPIKey never returns a credential that recordError disabled
\* while the cooldown timer started by that disablement is still pending
C14_CooldownRespected ==
    [][Len(picks') = Len(picks) + 1
       => ~\E t \in timers : t.k = picks'[Len(picks')].k /\ now < t.at]_vars

\* C15: a credential is disabled only when the last three calls recorded
\* for it were authentication or rate-limit errors: errors of other classes
\* and errors with a success between them do not lead to disablement
C15_ThreeConsecutive ==
    [][\A k \in 1..Len(apiKeys) :
          (apiKeys[k].enabled /\ ~apiKeys'[k].enabled)
          => keyLog'[k] >= errorThreshold]_vars

\* credentials with a non-empty secret
WithSecret(keys) == { i \in 1..Len(keys) : keys[i].key # "" }

\* C16: getNextAPIKey throws exactly when no credential has a non-empty
\* secret; the credential it returns is enabled and has a non-empty secret
\* when it is returned; and when it is called with no credential enabled,
\* every credential with a secret is enabled again with errorCount 0 and
\* the one returned is among them
C16_UsableOrThrow ==
    /\ [](getNextAPIKey(apiKeys, currentKeyIndex, now).ok
            <=> WithSecret(apiKeys) # {})
    /\ [][Len(picks') = Len(picks) + 1
          => LET k == picks'[Len(picks')].k
             IN  /\ k \in WithSecret(apiKeys')
                 /\ apiKeys'[k].enabled
                 /\ Len(UsableIdx(apiKeys)) = 0
                      => \A i \in WithSecret(apiKeys) :
                            /\ apiKeys'[i].enabled
                            /\ apiKeys'[i].errorCount = 0]_vars

C16_Witness ==
    /\ Len(picks) >= 1
    /\ Len(apiKeys) = 2
    /\ \E i \in 1..2 : apiKeys[i].key = ""
    /\ \E t \in timers :
          /\ now < t.at
          /\ picks[Len(picks)].k = t.k
          /\ apiKeys[t.k].enabled
          /\ apiKeys[t.k].errorCount = 0

C18_SetThenGet ==
    (call.op = "get" /\ call.expected \notin {Null, Undefined})
    => (~call.threw /\ call.value = call.expected)

\* C19: a get that finds the memory entry of the key older than the memory
\* TTL it applies, with a payload on disk, returns the disk payload and
\* leaves a memory entry with that payload and a fresh timestamp
C19_ExpiredMemoryReadsDisk ==
    (/\ call.op = "get"
     /\ call.hadMemory
     /\ call.age >= call.cacheTTL
     /\ call.onDisk \notin {Null, Undefined})
    => (~call.threw /\ call.value = call.onDisk /\ call.refreshed)

\* C20: the memory TTL get applies to the entry of a key made by
\* generateKey(prefix, ...params) is the TTL configured for that prefix
C20_PrefixTTL ==
    (call.op = "get" /\ call.hadMemory)
    => call.cacheTTL = memoryCacheTTL[call.prefix]

\* C21: a get that reads a disk file that does not parse as JSON, or that
\* parses but has no data field, returns null like a miss and leaves no file
\* for the key
C21_CorruptedFilePurged ==
    (/\ call.op = "get"
     /\ call.corrupted
     /\ ~(call.hadMemory /\ call.age < call.cacheTTL))
    => (~call.threw /\ call.value = Null /\ ~call.fileLeft)

\* a hint that names neither a region nor a platform, or no hint at all
UnknownOrAbsent(userRegion) ==
    \/ Falsy(userRegion)
    \/ ToLowerCase(userRegion) \notin validRegions \cup validPlatforms

\* the process defaults, with the substitution of the account family
Defaults(forAccountAPI) ==
    [region |-> IF forAccountAPI /\ region = "sea" THEN "asia" ELSE region,
     platform |-> platform]

\* C26: resolveRegionAndPlatform returns a region and a platform for every
\* hint and both values of the account flag; an unknown or absent hint
\* yields the process defaults; and with the account flag off the platform
\* returned belongs to the region returned
C26_ResolveTotal ==
    call.op = "resolveRegionAndPlatform"
    => /\ call.value.region \in validRegions
       /\ call.value.platform \in validPlatforms
       /\ UnknownOrAbsent(call.userRegion)
            => call.value = Defaults(call.forAccountAPI)
       /\ ~call.forAccountAPI
            => platformToRegional[call.value.platform] = call.value.region

ValidPayload(op, body) ==
    /\ IsObject(body)
    /\ op # "getMatchDetails" => HasPuuid(body)

\* C22: a call of getAccountByRiotId, getSummonerByPUUID or getMatchDetails
\* that finds its payload cached returns it and enqueues nothing; one that
\* finds nothing enqueues exactly one request; the cache is written only
\* when that request succeeded with a valid payload, and after a rejected
\* request both tiers are as they were
C22_CacheFirst ==
    (/\ call.op \in {"getAccountByRiotId", "getSummonerByPUUID", "getMatchDetails"}
     /\ call.error # ValidationError)
    => /\ call.cached # Null
            => (call.kind = "return" /\ call.value = call.cached
                /\ call.enqueued = 0)
       /\ call.cached = Null => call.enqueued = 1
       /\ call.wrote
            => (call.up[1].ok /\ ValidPayload(call.op, call.up[1].body))
       /\ (call.cached = Null /\ ~call.up[1].ok) => ~call.changed

\* an identifying parameter that is missing or empty, or a Riot ID that
\* does not have exactly one '#' between two non-empty names
InvalidCall(c) ==
    \/ \E i \in DOMAIN c.args.ids : c.args.ids[i] \in {Null, "", " "}
    \/ /\ c.op = "getSummonerByRiotId"
       /\ c.args.ids[1] \in {"Ann", "Ann#EUW#x", "#EUW", "Ann# "}

\* C23: a call of an accessor with an invalid identifying parameter ends at
\* once with a validation error and changes nothing: cache tiers, queue,
\* credentials and usage statistics are as before
C23_ValidationFirst ==
    [][(/\ call' # call
        /\ call'.op \in Accessors
        /\ InvalidCall(call'))
       => (/\ call'.kind = "throw"
           /\ call'.error = ValidationError
           /\ call'.enqueued = 0
           /\ run.pc = "idle"
           /\ UNCHANGED << now, nextCleanup, requestQueue, isProcessing,
                           requestTimestamps, lastRequestTime, apiKeys,
                           currentKeyIndex, minuteStats, timers, loops, nextId,
                           promises, hist, dispatched, order, minuteCalls,
                           memoryCache, diskCache, picks, stored, keyLog,
                           region, platform, run >>)]_vars

C23_Witness ==
    /\ call.op = "getSummonerByRiotId"
    /\ call.args.ids = << "Ann#EUW#x" >>
    /\ call.error = ValidationError

\* the scheduler rejects with a status the request of the account step, or
\* that of the profile step once the account is known
RejectedWith(c, st) ==
    \/ /\ c.cached[1] = Null
       /\ ~c.up[1].ok /\ c.up[1].error.response = st
    \/ /\ c.cached[1] = Null
       /\ c.up[1].ok /\ ValidPayload("getAccountByRiotId", c.up[1].body)
       /\ c.cached[2] = Null
       /\ ~c.up[2].ok /\ c.up[2].error.response = st
    \/ /\ c.cached[1] # Null /\ HasPuuid(c.cached[1])
       /\ c.cached[2] = Null
       /\ ~c.up[1].ok /\ c.up[1].error.response = st

RECURSIVE PageIds(_)
PageIds(pages) ==
    IF Len(pages) = 0 THEN << >>
    ELSE pages[1].ids \o PageIds(Tail(pages))

\* the scheduler answered the request of a page, and the page held no ID
EmptyPage(page) == page.ok /\ Len(page.ids) = 0

\* C30: getAllMatchHistoryForYear requests pages of 100 IDs at the offsets
\* 0, 100, 200, ...; it stops when two consecutive pages were empty and not
\* before (one empty page followed by a page with IDs does not stop it); it
\* returns the IDs of all pages with IDs in the order of the pages; and the
\* number of pages it requests is bounded by the length of the history
C30_Pagination ==
    /\ (/\ call.op = "getAllMatchHistoryForYear"
        /\ call.error # ValidationError)
       => LET P == call.pages
              n == Len(P)
          IN  /\ \A i \in 1..n : P[i].start = (i - 1) * 100 /\ P[i].count = 100
              /\ n >= 2 /\ EmptyPage(P[n - 1]) /\ EmptyPage(P[n])
              /\ \A i \in 1..(n - 2) : ~(EmptyPage(P[i]) /\ EmptyPage(P[i + 1]))
              /\ call.reply = "return"
              /\ call.value = PageIds(P)
    /\ (run.pc = "listing" /\ run.op = "getAllMatchHistoryForYear")
       => Len(run.pages) <= (Len(run.h) + 99) \div 100 + 1

\* the position of a match in the history of the player
Position(matchId, h) == CHOOSE i \in 1..Len(h) : MatchId(i) = matchId

\* a match record with all the fields the aggregation reads
WellFormed(d) == d \in {"post", "end", "in", "start", "pre"}

InWindow(d, season) ==
    /\ gameCreation(d, season) >= season.seasonStart
    /\ gameCreation(d, season) <= season.seasonEnd

PreWindowRun(h, i) ==
    i >= 50 /\ \A k \in (i - 49)..i : h[k] = "pre"

Examined(k) == call.h[Position(call.examined[k], call.h)]

C32_AuthFailureSurfaces ==
    (/\ call.op \in {"execute", "getAllMatchHistoryForYear"}
     /\ Len(call.pages) > 0
     /\ \A i \in 1..Len(call.pages) : call.pages[i].status = 403)
    => /\ call.reply \in {"error", "throw"}
       /\ call.error.response = 403

\* C33: generateKey maps different parameter lists of one prefix to
\* different keys, so that two lookups with different parameters never
\* share a cache entry
C33_KeysDistinct ==
    call.op = "generateKey"
    => \A other \in KeyLists :
          other # call.params => generateKey(call.prefix, other) # call.value

\* C34: the credentials tried for one request during its 401 retries are
\* pairwise distinct, whatever the state of the credential pool
C34_DistinctCredentials ==
    \A a \in Activations :
        \A i, j \in 1..Len(loops[a].keysTried) :
            i # j => loops[a].keysTried[i] # loops[a].keysTried[j]

\* C35: any two consecutive upstream dispatches are at least
\* minRequestInterval (50 ms) apart, the dispatches of a key retry included
C35_DispatchSpacing ==
    \A i \in 1..(Len(dispatched) - 1) :
        dispatched[i + 1] - dispatched[i] >= minRequestInterval

\* C36: the memory tier never holds more than memoryCacheMaxSize entries; a
\* set of a new key into a full tier evicts the entry inserted earliest and
\* nothing else; a set of a key the tier already holds evicts no other key
C36_MemoryBound ==
    /\ Len(memoryCache) <= memoryCacheMaxSize
    /\ call.op = "setMemoryCache"
       => /\ (~call.existed /\ call.size >= memoryCacheMaxSize)
                => call.evicted = {call.firstKey}
          /\ (~call.existed /\ call.size < memoryCacheMaxSize)
                => call.evicted = {}
          /\ call.existed => call.evicted \subseteq {call.key}

\* C37: every upstream call that was dispatched is recorded once in the
\* monitor (recordRequest) and once in the rotator (recordSuccess or
\* recordError) when its outcome is handled, also when the call timed out,
\* had no response or was answered with a 5xx status
C37_EveryCallRecorded ==
    [][\A a \in Activations :
         Handles(a) =>
            /\ MinuteRequests(minuteStats', now)
                   = MinuteRequests(minuteStats, now) + 1
            /\ apiKeys'[loops[a].apiKeyId].errorCount
                   \in { apiKeys[loops[a].apiKeyId].errorCount + 1,
                         IF apiKeys[loops[a].apiKeyId].errorCount > 0
                         THEN apiKeys[loops[a].apiKeyId].errorCount - 1
                         ELSE 0 }]_vars

\* C38: a cache hit does not consume the admission budget: recording a
\* request that was served from the cache leaves the request count of the
\* current minute bucket, which canMakeRequest compares with the ceiling, as
\* it was
C38_CacheHitFree ==
    (call.op = "recordRequest" /\ call.fromCache)
    => MinuteRequests(minuteStats, now) = call.before

\* C39: after clearAll and until a key is set again, get finds no entry of
\* the key: it reads no fresh memory entry and no file, and it delivers no
\* data for the key
C39_ClearAllEmpties ==
    [][(call.op = "clearAll" /\ call'.op = "get")
       => /\ ~(call'.hadMemory /\ call'.age < call'.cacheTTL)
          /\ call'.onDisk = Null
          /\ call'.value = Null]_vars

\* C40: when the request of a page is rejected with status 429,
\* getAllMatchHistoryForYear waits and requests the same offset again: the
\* next page request has the offset of the rejected one, and the call does
\* not throw
C40_RateLimitedPageRetried ==
    (/\ call.op = "getAllMatchHistoryForYear"
     /\ \E i \in 1..Len(call.pages) : call.pages[i].status = 429)
    => /\ call.reply = "return"
       /\ \A i \in 1..Len(call.pages) :
             call.pages[i].status = 429
             => /\ i < Len(call.pages)
                /\ call.pages[i + 1].start = call.pages[i].start

====
